---- MODULE Spec2Model ----
(***************************************************************************)
(* log2seq: header rules (header.py), the statement tokenizer              *)
(* (statement.py) and the LogParser dispatcher (_common.py).               *)
(*                                                                         *)
(* A text is a sequence of one-character strings.  A pattern string is a   *)
(* sequence of regular-expression lexemes, so that the string              *)
(* concatenations by which the code builds its patterns are sequence       *)
(* concatenations here, and re.compile is a parser of that sequence.       *)
(***************************************************************************)
EXTENDS Integers, Sequences, FiniteSets, TLC

VARIABLES
    statement,   \* StatementParser.process_line: the input statement
    parts,       \* iterable_parts: sequence of [s, flag]
    nact,        \* number of actions of self._l_act applied so far
    last,        \* the action applied last (its constructor call)
    spc,         \* position in StatementParser.process_line
    l_w,         \* words returned by _separate
    l_s,         \* symbols returned by _separate
    hdef,        \* the arguments of a HeaderParser(...) call
    hpc,         \* "defined", "constructed", "called", or the exception of __init__
    line,        \* the line given to process_line
    hret,        \* what HeaderParser.process_line returned or raised
    lp,          \* a LogParser: header_parsers and statement_parser
    rule_id,     \* process_header: the index of the rule tried next
    ppc,         \* position in LogParser.process_line
    result,      \* what LogParser.process_line returned or raised
    calls,       \* number of process_line calls made on the LogParser
    self_l_act   \* StatementParser: self._l_act, the actions given to __init__

vars == <<statement, parts, nact, last, spc, l_w, l_s,
          hdef, hpc, line, hret, lp, rule_id, ppc, result, calls, self_l_act>>

-----------------------------------------------------------------------------
(* Characters *)

Digits == {"0", "1", "2", "3", "4", "5", "6", "7", "8", "9"}
Lower == {"a", "b", "c", "d", "e", "f", "g", "h", "i", "j", "k", "l", "m",
          "n", "o", "p", "q", "r", "s", "t", "u", "v", "w", "x", "y", "z"}
Upper == {"A", "B", "C", "D", "E", "F", "G", "H", "I", "J", "K", "L", "M",
          "N", "O", "P", "Q", "R", "S", "T", "U", "V", "W", "X", "Y", "Z"}
Alnum == Lower \cup Upper \cup Digits
HexDigits == Digits \cup {"a", "b", "c", "d", "e", "f", "A", "B", "C", "D", "E", "F"}
\* the backquote character, which a TLA+ string cannot hold
BackQuote == "backquote"
Punct == {"(", ")", "[", "]", "{", "}", "|", "+", "'", ",", "=", ">", "<", ";",
          BackQuote, "#", "\"", ":", ".", "-", "_", "/", "%"}
\* \s of re, on text that holds no line feed
WhiteSpace == {" ", "\t"}
\* . of re: any character but a line feed
AnyChar == Alnum \cup Punct \cup WhiteSpace

-----------------------------------------------------------------------------
(* Pattern strings as lexemes *)

\* F(v), for an F that reads its argument more than once
Let(v, F(_)) == F(v)

Inf == 0 - 1

Tok(t, cs, name, lo, hi, lazy) ==
    [t |-> t, cs |-> cs, name |-> name, lo |-> lo, hi |-> hi, lazy |-> lazy]

Cls(cs)      == Tok("set", cs, "", 0, 0, FALSE)       \* a character class
Lit(c)       == Cls({c})                              \* one (escaped) character
POpen        == Tok("(", {}, "", 0, 0, FALSE)         \* (
PNamed(name) == Tok("(", {}, name, 0, 0, FALSE)       \* (?P<name>
PClose       == Tok(")", {}, "", 0, 0, FALSE)         \* )
PBar         == Tok("|", {}, "", 0, 0, FALSE)         \* |
PBol         == Tok("^", {}, "", 0, 0, FALSE)         \* ^
PEol         == Tok("$", {}, "", 0, 0, FALSE)         \* $
PQ(lo, hi)   == Tok("q", {}, "", lo, hi, FALSE)       \* {lo,hi}, ? + *
PQLazy(lo, hi) == Tok("q", {}, "", lo, hi, TRUE)      \* ?? +? *?
PHolder(i)   == Tok("<>", {}, "", i, 0, FALSE)        \* <i> of a full_format

RECURSIVE LitStr(_)
\* the pattern string that matches the text literally (re.escape)
LitStr(text) ==
    IF text = <<>> THEN <<>> ELSE <<Lit(Head(text))>> \o LitStr(Tail(text))

-----------------------------------------------------------------------------
(* re.compile: the lexemes parsed into a tree *)

Node(k, cs, name, lo, hi, lazy, xs) ==
    [k |-> k, cs |-> cs, name |-> name, lo |-> lo, hi |-> hi, lazy |-> lazy, xs |-> xs]

ParseFail(i) == [ok |-> FALSE, i |-> i, n |-> Node("fail", {}, "", 0, 0, FALSE, <<>>)]
ParseOk(n, i) == [ok |-> TRUE, i |-> i, n |-> n]

RECURSIVE ParseAlt(_, _, _), ParseCat(_, _, _), ParseAtom(_, _)

ParseQuant(toks, r) ==
    IF r.ok /\ r.i <= Len(toks) /\ toks[r.i].t = "q"
    THEN IF r.i + 1 <= Len(toks) /\ toks[r.i + 1].t = "q"
         THEN ParseFail(r.i + 1)                       \* multiple repeat
         ELSE ParseOk(Node("rep", {}, "", toks[r.i].lo, toks[r.i].hi,
                           toks[r.i].lazy, <<r.n>>), r.i + 1)
    ELSE r

ParseAtom(toks, i) ==
    LET tk == toks[i] IN
    CASE tk.t = "set" -> ParseQuant(toks, ParseOk(Node("set", tk.cs, "", 0, 0, FALSE, <<>>), i + 1))
      [] tk.t = "^"   -> ParseOk(Node("bol", {}, "", 0, 0, FALSE, <<>>), i + 1)
      [] tk.t = "$"   -> ParseOk(Node("eol", {}, "", 0, 0, FALSE, <<>>), i + 1)
      [] tk.t = "("   ->
            Let(ParseAlt(toks, i + 1, <<>>), LAMBDA inner :
                IF inner.ok /\ inner.i <= Len(toks) /\ toks[inner.i].t = ")"
                THEN ParseQuant(toks, ParseOk(Node("grp", {}, tk.name, 0, 0, FALSE,
                                                   <<inner.n>>), inner.i + 1))
                ELSE ParseFail(i))                     \* missing )
      [] OTHER        -> ParseFail(i)                  \* nothing to repeat, stray <i>

ParseCat(toks, i, acc) ==
    IF i > Len(toks) \/ toks[i].t \in {"|", ")"}
    THEN ParseOk(Node("cat", {}, "", 0, 0, FALSE, acc), i)
    ELSE Let(ParseAtom(toks, i), LAMBDA a :
             IF a.ok THEN ParseCat(toks, a.i, Append(acc, a.n)) ELSE a)

ParseAlt(toks, i, acc) ==
    Let(ParseCat(toks, i, <<>>), LAMBDA c :
        IF ~c.ok THEN c
        ELSE IF c.i <= Len(toks) /\ toks[c.i].t = "|"
             THEN ParseAlt(toks, c.i + 1, Append(acc, c.n))
             ELSE ParseOk(Node("alt", {}, "", 0, 0, FALSE, Append(acc, c.n)), c.i))

\* the group names of a pattern string, in order, with repetitions
GroupNamesSeq(toks) ==
    LET named == SelectSeq(toks, LAMBDA tk : tk.t = "(" /\ tk.name # "")
    IN  [k \in 1..Len(named) |-> named[k].name]

SeqToSet(seq) == {seq[k] : k \in 1..Len(seq)}

\* re.compile(restr): ok is FALSE where re.compile raises re.error
re_compile(toks) ==
    Let(ParseAlt(toks, 1, <<>>), LAMBDA r :
        LET names == GroupNamesSeq(toks) IN
        IF r.ok /\ r.i = Len(toks) + 1 /\ Cardinality(SeqToSet(names)) = Len(names)
        THEN [ok |-> TRUE, n |-> r.n, names |-> SeqToSet(names)]
        ELSE [ok |-> FALSE, n |-> r.n, names |-> {}])

-----------------------------------------------------------------------------
(* Matching: all the ways a tree matches from an offset, in the order the   *)
(* backtracking matcher of re tries them; its match is the first.          *)
(* Offsets are those of Python: text[a:b] is SubSeq(text, a + 1, b).        *)

NoSpan == <<0 - 1, 0 - 1>>

MState(pos, caps) == [pos |-> pos, caps |-> caps]

RECURSIVE M(_, _, _, _), MEach(_, _, _), MCat(_, _, _, _), MAlt(_, _, _, _, _),
          MRep(_, _, _, _, _), MRepEach(_, _, _, _)

\* the node matched from every state of rs, in order (rs is halved, which
\* keeps the evaluation shallow on a long text)
MEach(n, s, rs) ==
    IF rs = <<>> THEN <<>>
    ELSE IF Len(rs) = 1 THEN M(n, s, rs[1].pos, rs[1].caps)
    ELSE LET h == Len(rs) \div 2 IN
         MEach(n, s, SubSeq(rs, 1, h)) \o MEach(n, s, SubSeq(rs, h + 1, Len(rs)))

MCat(xs, k, s, rs) ==
    IF k > Len(xs) \/ rs = <<>> THEN rs
    ELSE MCat(xs, k + 1, s, MEach(xs[k], s, rs))

MAlt(xs, k, s, i, caps) ==
    IF k > Len(xs) THEN <<>>
    ELSE M(xs[k], s, i, caps) \o MAlt(xs, k + 1, s, i, caps)

MRepEach(n, s, rs, count) ==
    IF rs = <<>> THEN <<>>
    ELSE IF Len(rs) = 1 THEN MRep(n, s, rs[1].pos, rs[1].caps, count)
    ELSE LET h == Len(rs) \div 2 IN
         MRepEach(n, s, SubSeq(rs, 1, h), count)
         \o MRepEach(n, s, SubSeq(rs, h + 1, Len(rs)), count)

\* count repetitions of n.xs[1] are done; an empty repetition past the
\* minimum is not taken again
MRep(n, s, i, caps, count) ==
    IF n.xs[1].k = "set" /\ count = 0
    THEN \* a repeated character class: every length of the run of its
         \* characters from i, the longest first unless lazy
         LET bad == {k \in (i + 1)..Len(s) : s[k] \notin n.xs[1].cs}
             run == IF bad = {} THEN Len(s) - i
                    ELSE (CHOOSE k \in bad : \A j \in bad : k <= j) - i - 1
             most == IF n.hi = Inf \/ run < n.hi THEN run ELSE n.hi
         IN  [k \in 1..(most - n.lo + 1) |->
                 MState(IF n.lazy THEN i + n.lo + k - 1 ELSE i + most - k + 1, caps)]
    ELSE
    LET more == IF n.hi = Inf \/ count < n.hi
                THEN MRepEach(n, s,
                              SelectSeq(M(n.xs[1], s, i, caps),
                                        LAMBDA r : r.pos > i \/ count < n.lo),
                              count + 1)
                ELSE <<>>
        stop == IF count >= n.lo THEN <<MState(i, caps)>> ELSE <<>>
    IN  IF n.lazy THEN stop \o more ELSE more \o stop

M(n, s, i, caps) ==
    CASE n.k = "set" -> IF i < Len(s) /\ s[i + 1] \in n.cs
                        THEN <<MState(i + 1, caps)>> ELSE <<>>
      [] n.k = "bol" -> IF i = 0 THEN <<MState(i, caps)>> ELSE <<>>
      [] n.k = "eol" -> IF i = Len(s) THEN <<MState(i, caps)>> ELSE <<>>
      [] n.k = "cat" -> MCat(n.xs, 1, s, <<MState(i, caps)>>)
      [] n.k = "alt" -> MAlt(n.xs, 1, s, i, caps)
      [] n.k = "rep" -> MRep(n, s, i, caps, 0)
      [] n.k = "grp" ->
            LET rs == M(n.xs[1], s, i, caps) IN
            IF n.name = "" THEN rs
            ELSE [k \in 1..Len(rs) |->
                    MState(rs[k].pos, [rs[k].caps EXCEPT ![n.name] = <<i, rs[k].pos>>])]
      [] OTHER -> <<>>

\* a match object: matched, its span, and the span of every named group
\* (NoSpan for a group that did not take part: mo.start(g) = -1, mo[g] = None)
NoMatch == [matched |-> FALSE, start |-> 0, end |-> 0, caps |-> <<>>]

MatchAt(reobj, s, i) ==
    LET rs == M(reobj.n, s, i, [g \in reobj.names |-> NoSpan]) IN
    IF rs = <<>> THEN NoMatch
    ELSE [matched |-> TRUE, start |-> i, end |-> rs[1].pos, caps |-> rs[1].caps]

\* reobj.match(s)
re_match(reobj, s) == MatchAt(reobj, s, 0)

RECURSIVE FindIterFrom(_, _, _)
\* reobj.finditer(s): the non-overlapping matches, left to right
FindIterFrom(reobj, s, i) ==
    LET starts == {j \in i..Len(s) : MatchAt(reobj, s, j).matched} IN
    IF starts = {} THEN <<>>
    ELSE LET j == CHOOSE a \in starts : \A b \in starts : a <= b
             mo == MatchAt(reobj, s, j)
         IN  <<mo>> \o FindIterFrom(reobj, s, IF mo.end > j THEN mo.end ELSE j + 1)

re_finditer(reobj, s) == FindIterFrom(reobj, s, 0)

\* mo[name] as text; the caller has tested that the group took part
GroupText(s, mo, name) == SubSeq(s, mo.caps[name][1] + 1, mo.caps[name][2])

-----------------------------------------------------------------------------
(* Text helpers *)

\* text[a:b] of Python, for 0 <= a
Slice(text, a, b) == SubSeq(text, a + 1, b)

RECURSIVE Flatten(_)
Flatten(seqs) == IF seqs = <<>> THEN <<>> ELSE Head(seqs) \o Flatten(Tail(seqs))

RECURSIVE SplitOn(_, _, _)
\* text.split(c), cur being the piece read so far
SplitOn(text, c, cur) ==
    IF text = <<>> THEN <<cur>>
    ELSE IF Head(text) = c THEN <<cur>> \o SplitOn(Tail(text), c, <<>>)
         ELSE SplitOn(Tail(text), c, Append(cur, Head(text)))

str_split(text, c) == SplitOn(text, c, <<>>)

Contains(text, c) == \E k \in 1..Len(text) : text[k] = c

DigitVal(c) ==
    CASE c = "0" -> 0 [] c = "1" -> 1 [] c = "2" -> 2 [] c = "3" -> 3 [] c = "4" -> 4
      [] c = "5" -> 5 [] c = "6" -> 6 [] c = "7" -> 7 [] c = "8" -> 8 [] c = "9" -> 9

RECURSIVE IntOf(_)
\* int(text) for a non-empty text of digits
IntOf(text) ==
    IF text = <<>> THEN 0
    ELSE IntOf(SubSeq(text, 1, Len(text) - 1)) * 10 + DigitVal(text[Len(text)])

IsDigits(text) == text # <<>> /\ \A k \in 1..Len(text) : text[k] \in Digits

-----------------------------------------------------------------------------
(* ipaddress.ip_address and ipaddress.ip_network(strict=False), as          *)
(* FixIP._is_ipaddr calls them: whether they return or raise ValueError     *)

\* IPv4Address._parse_octet
ipv4_octet_ok(o) ==
    /\ IsDigits(o)
    /\ Len(o) <= 3
    /\ ~(Len(o) > 1 /\ o[1] = "0")
    /\ IntOf(o) <= 255

\* IPv4Address(string)
is_ipv4_address(string) ==
    /\ ~Contains(string, "/")
    /\ string # <<>>
    /\ LET octets == str_split(string, ".") IN
       /\ Len(octets) = 4
       /\ \A k \in 1..4 : ipv4_octet_ok(octets[k])

\* IPv6Address._parse_hextet
ipv6_hextet_ok(h) ==
    /\ h # <<>>
    /\ Len(h) <= 4
    /\ \A k \in 1..Len(h) : h[k] \in HexDigits

\* IPv6Address._ip_int_from_string
ipv6_int_ok(ip_str) ==
    LET hextets0 == str_split(ip_str, ":")
        tail4 == Contains(hextets0[Len(hextets0)], ".")
        \* an IPv4 tail is replaced by two hextets
        hextets == IF tail4
                 THEN SubSeq(hextets0, 1, Len(hextets0) - 1) \o <<<<"0">>, <<"0">>>>
                 ELSE hextets0
        n == Len(hextets)
        skips == {k \in 2..(n - 1) : hextets[k] = <<>>}
    IN  /\ ip_str # <<>>
        /\ Len(hextets0) >= 3
        /\ tail4 => is_ipv4_address(hextets0[Len(hextets0)])
        /\ n <= 9
        /\ Cardinality(skips) <= 1
        /\ IF skips # {}
           THEN LET skip_index == (CHOOSE k \in skips : TRUE) - 1
                    hi0 == skip_index
                    lo0 == n - skip_index - 1
                    parts_hi == IF hextets[1] = <<>> THEN hi0 - 1 ELSE hi0
                    parts_lo == IF hextets[n] = <<>> THEN lo0 - 1 ELSE lo0
                IN  /\ hextets[1] = <<>> => parts_hi = 0
                    /\ hextets[n] = <<>> => parts_lo = 0
                    /\ 8 - (parts_hi + parts_lo) >= 1
                    /\ \A k \in 1..parts_hi : ipv6_hextet_ok(hextets[k])
                    /\ \A k \in (n - parts_lo + 1)..n : ipv6_hextet_ok(hextets[k])
           ELSE /\ n = 8
                /\ \A k \in 1..n : ipv6_hextet_ok(hextets[k])

\* IPv6Address(string), with its optional %scope
is_ipv6_address(string) ==
    /\ ~Contains(string, "/")
    /\ LET ps == str_split(string, "%") IN
       /\ Len(ps) <= 2
       /\ Len(ps) = 2 => ps[2] # <<>>
       /\ ipv6_int_ok(ps[1])

\* ipaddress.ip_address(string) returns
is_ip_address(string) == is_ipv4_address(string) \/ is_ipv6_address(string)

\* _prefix_from_prefix_string
prefix_string_ok(p, max_prefixlen) == IsDigits(p) /\ IntOf(p) <= max_prefixlen

\* _prefix_from_ip_string: a netmask (ones then zeroes) or a hostmask (zeroes
\* then ones), read octet by octet
prefix_ip_string_ok(p) ==
    /\ is_ipv4_address(p)
    /\ LET o == [k \in 1..4 |-> IntOf(str_split(p, ".")[k])] IN
       \/ \E j \in 1..4 :
             /\ \A a \in 1..(j - 1) : o[a] = 255
             /\ o[j] \in {0, 128, 192, 224, 240, 248, 252, 254, 255}
             /\ \A b \in (j + 1)..4 : o[b] = 0
       \/ \E j \in 1..4 :
             /\ \A a \in 1..(j - 1) : o[a] = 0
             /\ o[j] \in {0, 1, 3, 7, 15, 31, 63, 127, 255}
             /\ \A b \in (j + 1)..4 : o[b] = 255

\* ipaddress.ip_network(string, strict=False) returns
is_ip_network(string) ==
    LET ps == str_split(string, "/") IN
    /\ Len(ps) <= 2
    /\ \/ /\ is_ipv4_address(ps[1])
          /\ Len(ps) = 2 => (prefix_string_ok(ps[2], 32) \/ prefix_ip_string_ok(ps[2]))
       \/ /\ is_ipv6_address(ps[1])
          /\ Len(ps) = 2 => prefix_string_ok(ps[2], 128)

-----------------------------------------------------------------------------
(* statement.py *)

FLAG_UNKNOWN == 0
FLAG_FIXED == 1
FLAG_SEPARATORS == 2

Part(s, flag) == [s |-> s, flag |-> flag]

\* an action object; an attribute a class does not have is left empty
Action(cls, l_regex, regex, groups, rest_flag, test_addr, test_net) ==
    [cls |-> cls, l_regex |-> l_regex, regex |-> regex, groups |-> groups,
     rest_flag |-> rest_flag, test_addr |-> test_addr, test_net |-> test_net]

NoRegex == [ok |-> FALSE, n |-> Node("fail", {}, "", 0, 0, FALSE, <<>>), names |-> {}]

\* _is_active_part without its test of the flag
ActionBase_is_active_part_any_flag(s, flag) == Len(s) > 0

ActionBase_is_active_part(s, flag) == Len(s) > 0 /\ flag = FLAG_UNKNOWN

\* patterns is a list of pattern strings (a single str is a list of one)
ActionBase_standard_patterns(patterns) ==
    [k \in 1..Len(patterns) |-> re_compile(patterns[k])]

\* sorted(match_groups) leaving the groups as they are listed
sorted_by_start_as_listed(mo, match_groups) == match_groups

RECURSIVE sorted_by_start(_, _)
\* sorted(match_groups, key=lambda x: mo.start(x)): a stable sort
sorted_by_start(mo, match_groups) ==
    IF match_groups = <<>> THEN <<>>
    ELSE LET n == Len(match_groups)
             g == match_groups[n]
             before == sorted_by_start(mo, SubSeq(match_groups, 1, n - 1))
             k == Cardinality({j \in 1..Len(before) : mo.caps[before[j]][1] <= mo.caps[g][1]})
         IN  SubSeq(before, 1, k) \o <<g>> \o SubSeq(before, k + 1, Len(before))

RECURSIVE separate_partial_loop(_, _, _, _, _, _, _)
separate_partial_loop(part, mo, groups, k, current, label_match, label_other) ==
    IF k > Len(groups)
    THEN IF current < Len(part)
         THEN <<Part(Slice(part, current, Len(part)), label_other)>>
         ELSE <<>>
    ELSE LET start == mo.caps[groups[k]][1]
             end == mo.caps[groups[k]][2]
         IN  IF start = 0 - 1
             THEN separate_partial_loop(part, mo, groups, k + 1, current,
                                        label_match, label_other)
             ELSE (IF start > current
                   THEN <<Part(Slice(part, current, start), label_other)>>
                   ELSE <<>>)
                  \o <<Part(Slice(part, start, end), label_match)>>
                  \o separate_partial_loop(part, mo, groups, k + 1, end,
                                           label_match, label_other)

ActionBase_separate_partial_match(part, mo, match_groups, label_match, label_other) ==
    separate_partial_loop(part, mo, sorted_by_start(mo, match_groups), 1, 0,
                          label_match, label_other)

\* ---- Fix

Fix_init(patterns) ==
    Action("Fix", ActionBase_standard_patterns(patterns), NoRegex, <<>>, 0, FALSE, FALSE)

Fix_test_match_pattern(self, s) ==
    \E k \in 1..Len(self.l_regex) : re_match(self.l_regex[k], s).matched

Fix_do(self, iterable_parts) ==
    [k \in 1..Len(iterable_parts) |->
        LET s == iterable_parts[k].s
            flag == iterable_parts[k].flag
        IN  IF ~ActionBase_is_active_part(s, flag) THEN Part(s, flag)
            ELSE IF Fix_test_match_pattern(self, s) THEN Part(s, FLAG_FIXED)
            ELSE Part(s, flag)]

\* ---- _PartialActionBase, FixPartial, FixParenthesis, RemovePartial

\* the label of the groups: FixPartial and FixParenthesis fix, RemovePartial removes
PartialAction_label_match(self) ==
    IF self.cls = "RemovePartial" THEN FLAG_SEPARATORS ELSE FLAG_FIXED

\* self._separate_partial(part, mo) of the three classes
PartialAction_separate_partial(self, part, mo) ==
    ActionBase_separate_partial_match(part, mo, self.groups,
                                      PartialAction_label_match(self), self.rest_flag)

\* the first pattern of self._l_regex that matches s, 0 when none does
FirstMatching(l_regex, s) ==
    LET hits == {k \in 1..Len(l_regex) : re_match(l_regex[k], s).matched}
    IN  IF hits = {} THEN 0 ELSE CHOOSE k \in hits : \A j \in hits : k <= j

PartialActionBase_do(self, iterable_parts) ==
    Flatten([k \in 1..Len(iterable_parts) |->
        LET s == iterable_parts[k].s
            flag == iterable_parts[k].flag
            hit == FirstMatching(self.l_regex, s)
        IN  IF ActionBase_is_active_part(s, flag) /\ hit # 0
            THEN PartialAction_separate_partial(self, s, re_match(self.l_regex[hit], s))
            ELSE <<Part(s, flag)>>])

FixPartial_init(patterns, fix_groups, rest_remove) ==
    Action("FixPartial", ActionBase_standard_patterns(patterns), NoRegex, fix_groups,
           IF rest_remove THEN FLAG_SEPARATORS ELSE FLAG_UNKNOWN, FALSE, FALSE)

FixParenthesis_key_fix == "fix"

\* parent_pattern is <<left, right>>, two texts
FixParenthesis_init_named_pattern(parent_pattern) ==
    re_compile(<<PBol, Cls(AnyChar), PQLazy(0, Inf)>> \o LitStr(parent_pattern[1])
               \o <<PNamed(FixParenthesis_key_fix), Cls(AnyChar), PQLazy(1, Inf), PClose>>
               \o LitStr(parent_pattern[2]) \o <<Cls(AnyChar), PQ(0, Inf), PEol>>)

\* patterns is a list of <<left, right>>
FixParenthesis_init(patterns) ==
    Action("FixParenthesis",
           [k \in 1..Len(patterns) |-> FixParenthesis_init_named_pattern(patterns[k])],
           NoRegex, <<FixParenthesis_key_fix>>, FLAG_UNKNOWN, FALSE, FALSE)

RemovePartial_init(patterns, remove_groups) ==
    Action("RemovePartial", ActionBase_standard_patterns(patterns), NoRegex, remove_groups,
           FLAG_UNKNOWN, FALSE, FALSE)

\* ---- FixIP

FixIP_init(address, network) ==
    Action("FixIP", <<>>, NoRegex, <<>>, 0, address, network)

\* _is_ipaddr taking no string for an address
FixIP_is_ipaddr_never(string, ipaddr, ipnet) == FALSE

\* _is_ipaddr without the test of networks
FixIP_is_ipaddr_address_only(string, ipaddr, ipnet) ==
    IF ~Contains(string, ".") /\ ~Contains(string, ":") THEN FALSE
    ELSE ipaddr /\ is_ip_address(string)

FixIP_is_ipaddr(string, ipaddr, ipnet) ==
    IF ~Contains(string, ".") /\ ~Contains(string, ":") THEN FALSE
    ELSE IF ipaddr /\ is_ip_address(string) THEN TRUE
    ELSE IF ipnet /\ Contains(string, "/") /\ is_ip_network(string) THEN TRUE
    ELSE FALSE

FixIP_test_match_pattern(self, s) == FixIP_is_ipaddr(s, self.test_addr, self.test_net)

FixIP_do(self, iterable_parts) ==
    [k \in 1..Len(iterable_parts) |->
        LET s == iterable_parts[k].s
            flag == iterable_parts[k].flag
        IN  IF ~ActionBase_is_active_part(s, flag) THEN Part(s, flag)
            ELSE IF FixIP_test_match_pattern(self, s) THEN Part(s, FLAG_FIXED)
            ELSE Part(s, flag)]

\* ---- Remove

Remove_init(patterns) ==
    Action("Remove", ActionBase_standard_patterns(patterns), NoRegex, <<>>, 0, FALSE, FALSE)

Remove_test_match_pattern(self, s) ==
    \E k \in 1..Len(self.l_regex) : re_match(self.l_regex[k], s).matched

\* Remove.do tagging the matched parts as Fix.do does
Remove_do_as_fix(self, iterable_parts) == Fix_do(self, iterable_parts)

Remove_do(self, iterable_parts) ==
    [k \in 1..Len(iterable_parts) |->
        LET s == iterable_parts[k].s
            flag == iterable_parts[k].flag
        IN  IF ~ActionBase_is_active_part(s, flag) THEN Part(s, flag)
            ELSE IF Remove_test_match_pattern(self, s) THEN Part(s, FLAG_SEPARATORS)
            ELSE Part(s, flag)]

\* ---- Split, ConditionalSplit

\* separators is a non-empty text
Split_regex(separators) ==
    re_compile(<<POpen, Cls(SeqToSet(separators)), PClose, PQ(1, Inf)>>)

Split_init(separators) ==
    Action("Split", <<>>, Split_regex(separators), <<>>, 0, FALSE, FALSE)

RECURSIVE iter_part_loop(_, _, _, _)
iter_part_loop(s, mos, k, current) ==
    IF k > Len(mos)
    THEN IF current < Len(s)
         THEN <<Part(Slice(s, current, Len(s)), FLAG_UNKNOWN)>>
         ELSE <<>>
    ELSE (IF mos[k].start > current
          THEN <<Part(Slice(s, current, mos[k].start), FLAG_UNKNOWN)>>
          ELSE <<>>)
         \o <<Part(Slice(s, mos[k].start, mos[k].end), FLAG_SEPARATORS)>>
         \o iter_part_loop(s, mos, k + 1, mos[k].end)

\* _iter_part without the text after the last separator
Split_iter_part_no_remainder(s, iterable_mo) ==
    LET r == iter_part_loop(s, iterable_mo, 1, 0)
    IN  IF r # <<>> /\ r[Len(r)].flag = FLAG_UNKNOWN THEN SubSeq(r, 1, Len(r) - 1) ELSE r

Split_iter_part(s, iterable_mo) == iter_part_loop(s, iterable_mo, 1, 0)

Split_do(self, iterable_parts) ==
    Flatten([k \in 1..Len(iterable_parts) |->
        LET s == iterable_parts[k].s
            flag == iterable_parts[k].flag
        IN  IF ActionBase_is_active_part(s, flag)
            THEN Split_iter_part(s, re_finditer(self.regex, s))
            ELSE <<Part(s, flag)>>])

ConditionalSplit_init(patterns, separators) ==
    Action("ConditionalSplit", ActionBase_standard_patterns(patterns),
           Split_regex(separators), <<>>, 0, FALSE, FALSE)

ConditionalSplit_do(self, iterable_parts) ==
    Flatten([k \in 1..Len(iterable_parts) |->
        LET s == iterable_parts[k].s
            flag == iterable_parts[k].flag
        IN  IF ~ActionBase_is_active_part(s, flag) THEN <<Part(s, flag)>>
            ELSE IF Fix_test_match_pattern(self, s)
            THEN Split_iter_part(s, re_finditer(self.regex, s))
            ELSE <<Part(s, flag)>>])

\* act.do(iterable_parts)
Action_do(act, iterable_parts) ==
    CASE act.cls = "Fix" -> Fix_do(act, iterable_parts)
      [] act.cls \in {"FixPartial", "FixParenthesis", "RemovePartial"} ->
            PartialActionBase_do(act, iterable_parts)
      [] act.cls = "FixIP" -> FixIP_do(act, iterable_parts)
      [] act.cls = "Remove" -> Remove_do(act, iterable_parts)
      [] act.cls = "Split" -> Split_do(act, iterable_parts)
      [] act.cls = "ConditionalSplit" -> ConditionalSplit_do(act, iterable_parts)

\* ---- StatementParser

RECURSIVE separate_loop(_, _, _, _, _)
\* the for loop of _separate over iterable_parts[k..]
separate_loop(iterable_parts, k, w, s, prev_isword) ==
    IF k > Len(iterable_parts)
    THEN [l_w |-> w, l_s |-> IF prev_isword THEN Append(s, <<>>) ELSE s]
    ELSE LET part == iterable_parts[k].s
             flag == iterable_parts[k].flag
             current_isword == flag \in {FLAG_FIXED, FLAG_UNKNOWN}
         IN  IF current_isword
             THEN IF part = <<>>
                  THEN separate_loop(iterable_parts, k + 1, w, s, current_isword)
                  ELSE IF prev_isword
                  THEN separate_loop(iterable_parts, k + 1, Append(w, part),
                                     Append(s, <<>>), current_isword)
                  ELSE separate_loop(iterable_parts, k + 1, Append(w, part), s,
                                     current_isword)
             ELSE IF prev_isword
                  THEN separate_loop(iterable_parts, k + 1, w, Append(s, part),
                                     current_isword)
                  ELSE separate_loop(iterable_parts, k + 1, w,
                                     [s EXCEPT ![Len(s)] = s[Len(s)] \o part],
                                     current_isword)

\* _separate up to its assert; asserted says whether the assert passes
StatementParser_separate(iterable_parts) ==
    LET r == separate_loop(iterable_parts, 1, <<>>, <<>>, TRUE)
    IN  [l_w |-> r.l_w, l_s |-> r.l_s, asserted |-> Len(r.l_s) = Len(r.l_w) + 1]

RECURSIVE apply_actions(_, _, _)
\* the for loop of process_line over self._l_act[k..]
apply_actions(l_act, k, iterable_parts) ==
    IF k > Len(l_act) THEN iterable_parts
    ELSE apply_actions(l_act, k + 1, Action_do(l_act[k], iterable_parts))

\* StatementParser.process_line(statement), run to its end
StatementParser_process_line(l_act, text) ==
    StatementParser_separate(apply_actions(l_act, 1, <<Part(text, FLAG_UNKNOWN)>>))

-----------------------------------------------------------------------------
(* header.py: items *)

\* a value held under a key of the parsed items: its Python type, its content
V(t, v) == [t |-> t, v |-> v]
NoneValue == V("None", 0)
\* None where the code expects a str (separator, full_format, symbols, strip)
NoneText == <<"None">>

\* the outcome of a call: exc is "" where it returns val, else the class of
\* the exception it raises
Return(val) == [exc |-> "", val |-> val]
Raise(exc) == [exc |-> exc, val |-> NoneValue]

\* datetime.datetime.now().year
now_year == 2026

month_name ==
    << <<"J", "a", "n">>, <<"F", "e", "b">>, <<"M", "a", "r">>, <<"A", "p", "r">>,
       <<"M", "a", "y">>, <<"J", "u", "n">>, <<"J", "u", "l">>, <<"A", "u", "g">>,
       <<"S", "e", "p">>, <<"O", "c", "t">>, <<"N", "o", "v">>, <<"D", "e", "c">> >>

\* the arguments of an Item constructor beyond name, optional and dummy
ItemArg(symbols, pattern, strip, no_century) ==
    [symbols |-> symbols, pattern |-> pattern, strip |-> strip, no_century |-> no_century]
NoArg == ItemArg(NoneText, <<>>, NoneText, FALSE)

\* the pattern property of each Item class
Item_pattern(cls, arg) ==
    LET d2 == <<Cls(Digits), PQ(2, 2)>>
        plus(cs) == <<Cls(cs), PQ(1, Inf)>>
        date == <<PNamed("year"), Cls(Digits), PQ(4, 4), PClose, Lit("-"),
                  PNamed("month")>> \o d2 \o <<PClose, Lit("-"), PNamed("day")>>
                \o d2 \o <<PClose>>
        time == <<PNamed("hour")>> \o d2 \o <<PClose, Lit(":"), PNamed("minute")>>
                \o d2 \o <<PClose, Lit(":"), PNamed("second")>> \o d2 \o <<PClose>>
                \o <<POpen, Lit("."), PNamed("dsecond")>> \o plus(Digits)
                \o <<PClose, PClose, PQ(0, 1)>>
                \o <<PNamed("tz"), Lit("Z"), PBar, POpen, Cls({"+", "-"}), POpen>> \o d2
                \o <<PClose, Lit(":"), POpen>> \o d2 \o <<PClose, PClose, PClose, PQ(0, 1)>>
        months == Flatten([k \in 1..12 |->
                     (IF k = 1 THEN <<>> ELSE <<PBar>>) \o LitStr(month_name[k])])
    IN  CASE cls = "Statement" -> <<Cls(AnyChar), PQ(0, Inf)>>
          [] cls = "YearWithoutCentury" -> d2
          [] cls = "MonthAbbreviation" -> months
          [] cls = "DatetimeISOFormat" -> date \o <<Lit("T")>> \o time
          [] cls = "Date" -> date
          [] cls = "Time" -> time
          [] cls = "DemicalSecond" -> plus(Digits)
          [] cls = "TimeZone" ->
                <<PNamed("tz"), Lit("Z"), PBar, POpen, Cls({"+", "-"}), POpen>> \o d2
                \o <<PClose, POpen, Lit(":"), PClose, PQ(0, 1), POpen>> \o d2
                \o <<PClose, PClose, PClose>>
          [] cls = "UnixTime" -> plus(Digits)
          [] cls = "DateConcat" ->
                <<Cls(Digits), IF arg.no_century THEN PQ(6, 6) ELSE PQ(8, 8)>>
          [] cls = "TimeConcat" -> <<Cls(Digits), PQ(6, 6)>>
          [] cls = "Digit" -> plus(Digits)
          \* symbols go into the character class as they are, "-" moved last
          [] cls = "String" ->
                plus(Alnum \cup (IF arg.symbols = NoneText THEN {}
                                 ELSE SeqToSet(arg.symbols)))
          [] cls = "Hostname" ->
                <<POpen, Cls(Alnum \cup {":"}), Cls(Alnum \cup {":", ".", "_", "-"}),
                  PQ(0, Inf), Cls(Alnum), PQ(1, Inf), PClose, PBar,
                  POpen, Cls(Alnum), PClose>>
          [] cls = "UserItem" -> arg.pattern

\* the constructor of an Item class other than ItemGroup; name is the name of
\* a NamedItem and is not read for the other classes
Item_init(cls, name, optional, dummy, arg) ==
    LET names ==
          CASE cls = "Statement" -> <<"message", "message">>
            [] cls = "YearWithoutCentury" -> <<"year_nocentury", "year">>
            [] cls = "MonthAbbreviation" -> <<"month_abb", "month">>
            [] cls = "DatetimeISOFormat" -> <<"iso_datetime", "timestamp">>
            [] cls = "Date" -> <<"date", "date">>
            [] cls = "Time" -> <<"iso_time", "time">>
            [] cls = "DemicalSecond" -> <<"iso_time", "microsecond">>
            [] cls = "TimeZone" -> <<"timezone", "tz">>
            [] cls = "UnixTime" -> <<"unixtime", "timestamp">>
            [] cls = "DateConcat" -> <<"date_concat", "date">>
            [] cls = "TimeConcat" -> <<"time_concat", "time">>
            [] OTHER -> <<name, name>>
    IN  [cls |-> cls, match_name |-> names[1], value_name |-> names[2],
         optional |-> optional, dummy |-> dummy, pattern |-> Item_pattern(cls, arg),
         members |-> <<>>, strip |-> arg.strip, no_century |-> arg.no_century,
         err |-> ""]

\* Item.get_regex
Item_get_regex(item) ==
    IF item.dummy THEN item.pattern
    ELSE <<PNamed(item.match_name)>> \o item.pattern \o <<PClose>>

\* make_regex_separator enclosing an optional item without its separator
HeaderParser_make_regex_separator_item_only(items, separator) ==
    LET sep == IF separator = NoneText THEN <<Cls(WhiteSpace), PQ(1, Inf)>>
               ELSE <<Cls(SeqToSet(separator)), PQ(1, Inf)>>
        sep_opt == <<POpen>> \o sep \o <<PClose, PQ(0, 1)>>
        mandatory == {k \in 1..Len(items) : ~items[k].optional}
        ind_first_mandatory_item == CHOOSE k \in mandatory : \A j \in mandatory : k <= j
        enclosed(ind) ==
            IF items[ind].optional
            THEN <<POpen>> \o Item_get_regex(items[ind]) \o <<PClose, PQ(0, 1)>>
            ELSE Item_get_regex(items[ind])
        tmp_pattern(ind) ==
            IF ind < ind_first_mandatory_item THEN enclosed(ind) \o sep
            ELSE IF ind = ind_first_mandatory_item THEN enclosed(ind)
            ELSE sep \o enclosed(ind)
    IN  IF mandatory = {} THEN Raise("IndexError")
        ELSE Return(sep_opt \o Flatten([ind \in 1..Len(items) |-> tmp_pattern(ind)])
                    \o sep_opt)

\* HeaderParser.make_regex_separator; the [0] of an empty list raises IndexError
HeaderParser_make_regex_separator(items, separator) ==
    LET sep == IF separator = NoneText THEN <<Cls(WhiteSpace), PQ(1, Inf)>>
               ELSE IF separator = <<>> THEN <<Tok("[]", {}, "", 0, 0, FALSE), PQ(1, Inf)>>
               ELSE <<Cls(SeqToSet(separator)), PQ(1, Inf)>>
        sep_opt == <<POpen>> \o sep \o <<PClose, PQ(0, 1)>>
        mandatory == {k \in 1..Len(items) : ~items[k].optional}
        ind_first_mandatory_item == CHOOSE k \in mandatory : \A j \in mandatory : k <= j
        tmp_pattern(ind) ==
            LET p == IF ind < ind_first_mandatory_item
                     THEN Item_get_regex(items[ind]) \o sep
                     ELSE IF ind = ind_first_mandatory_item
                     THEN Item_get_regex(items[ind])
                     ELSE sep \o Item_get_regex(items[ind])
            IN  IF items[ind].optional THEN <<POpen>> \o p \o <<PClose, PQ(0, 1)>> ELSE p
    IN  IF mandatory = {} THEN Raise("IndexError")
        ELSE Return(sep_opt \o Flatten([ind \in 1..Len(items) |-> tmp_pattern(ind)])
                    \o sep_opt)

\* ItemGroup.__init__; err is the exception raised while the group (or one of
\* its members) is constructed
ItemGroup_init(items, separator, optional) ==
    LET failed == {k \in 1..Len(items) : items[k].err # ""}
        r == HeaderParser_make_regex_separator(items, separator)
    IN  [cls |-> "ItemGroup", match_name |-> "variable", value_name |-> "variable",
         optional |-> optional, dummy |-> TRUE,
         pattern |-> IF failed = {} /\ r.exc = "" THEN r.val ELSE <<>>,
         members |-> items, strip |-> NoneText, no_century |-> FALSE,
         err |-> IF failed # {}
                 THEN items[CHOOSE k \in failed : \A j \in failed : k <= j].err
                 ELSE r.exc]

-----------------------------------------------------------------------------
(* header.py: HeaderParser.__init__ *)

RECURSIVE HeaderParser_get_items_to_pick(_)
HeaderParser_get_items_to_pick(items) ==
    IF items = <<>> THEN <<>>
    ELSE LET item == Head(items) IN
         (IF item.cls = "ItemGroup" THEN HeaderParser_get_items_to_pick(item.members)
          ELSE IF item.dummy THEN <<>>
          ELSE <<item>>) \o HeaderParser_get_items_to_pick(Tail(items))

RECURSIVE full_format_fill(_, _, _)
\* full_format with its runs of spaces replaced by \s+ and the first <i> of
\* every item replaced by the regex of the item; a further <i> stays literal
full_format_fill(toks, items, used) ==
    IF toks = <<>> THEN <<>>
    ELSE LET tk == Head(toks) IN
         IF tk = Lit(" ")
         THEN IF Len(toks) > 1 /\ toks[2] = Lit(" ")
              THEN full_format_fill(Tail(toks), items, used)
              ELSE <<Cls(WhiteSpace), PQ(1, Inf)>> \o full_format_fill(Tail(toks), items, used)
         ELSE IF tk.t = "<>" /\ tk.lo < Len(items) /\ tk.lo \notin used
         THEN Item_get_regex(items[tk.lo + 1])
              \o full_format_fill(Tail(toks), items, used \cup {tk.lo})
         ELSE IF tk.t = "<>"
         THEN LitStr(<<"<", ToString(tk.lo), ">">>) \o full_format_fill(Tail(toks), items, used)
         ELSE <<tk>> \o full_format_fill(Tail(toks), items, used)

\* HeaderParser.make_pattern_full_format
HeaderParser_make_pattern_full_format(items, full_format) ==
    IF \E i \in 0..(Len(items) - 1) : ~\E k \in 1..Len(full_format) : full_format[k] = PHolder(i)
    THEN Raise("ParserDefinitionError")
    ELSE Return(<<PBol>> \o full_format_fill(full_format, items, {}) \o <<PEol>>)

\* HeaderParser.make_pattern_separator
HeaderParser_make_pattern_separator(items, separator) ==
    Let(HeaderParser_make_regex_separator(items, separator), LAMBDA r :
        IF r.exc = "" THEN Return(<<PBol>> \o r.val \o <<PEol>>) ELSE r)

\* the arguments of HeaderParser(...)
HeaderRule(items, separator, full_format, defaults, reformat_timestamp) ==
    [items |-> items, separator |-> separator, full_format |-> full_format,
     defaults |-> defaults, reformat |-> reformat_timestamp]

\* HeaderParser.__init__, after the items are constructed: err is the class
\* of the exception raised, "" where the parser is constructed
HeaderParser_init(rule) ==
    LET items == rule.items
        failed == {k \in 1..Len(items) : items[k].err # ""}
        fail(exc) == [err |-> exc, items_to_pick |-> <<>>, reobj |-> <<>>,
                      defaults |-> rule.defaults, reformat |-> rule.reformat]
    IN  IF failed # {}
        THEN fail(items[CHOOSE k \in failed : \A j \in failed : k <= j].err)
        ELSE Let(HeaderParser_get_items_to_pick(items), LAMBDA items_to_pick :
        \* _optional_check
        IF \A k \in 1..Len(items) : items[k].optional
        THEN fail("ParserDefinitionError")
        \* _statement_check
        ELSE IF \A k \in 1..Len(items) : items[k].value_name # "message"
        THEN fail("ParserDefinitionError")
        \* _duplication_check
        ELSE IF Len(items_to_pick)
                > Cardinality({items_to_pick[k].match_name : k \in 1..Len(items_to_pick)})
        THEN fail("ParserDefinitionError")
        ELSE Let(IF rule.full_format # NoneText /\ rule.full_format # <<>>
                 THEN HeaderParser_make_pattern_full_format(items, rule.full_format)
                 ELSE HeaderParser_make_pattern_separator(items, rule.separator),
                 LAMBDA restr :
        IF restr.exc # "" THEN fail(restr.exc)
        ELSE Let(re_compile(restr.val), LAMBDA reobj :
        IF ~reobj.ok THEN fail("re.error")
        ELSE [err |-> "", items_to_pick |-> items_to_pick, reobj |-> reobj,
              defaults |-> rule.defaults, reformat |-> rule.reformat])))

-----------------------------------------------------------------------------
(* header.py: HeaderParser.process_line *)

\* datetime.date(year, month, day)
datetime_date(year, month, day) ==
    LET leap == year % 4 = 0 /\ (year % 100 # 0 \/ year % 400 = 0)
        days == CASE month \in {4, 6, 9, 11} -> 30
                  [] month = 2 -> IF leap THEN 29 ELSE 28
                  [] OTHER -> 31
    IN  IF year \in 1..9999 /\ month \in 1..12 /\ day \in 1..days
        THEN Return(V("date", [year |-> year, month |-> month, day |-> day]))
        ELSE Raise("ValueError")

\* datetime.time(hour, minute, second, microsecond, tzinfo)
datetime_time(hour, minute, second, microsecond, tzinfo) ==
    IF hour \in 0..23 /\ minute \in 0..59 /\ second \in 0..59 /\ microsecond \in 0..999999
    THEN Return(V("time", [hour |-> hour, minute |-> minute, second |-> second,
                           microsecond |-> microsecond, tzinfo |-> tzinfo]))
    ELSE Raise("ValueError")

\* Time.parse_tz and TimeZone.parse_tz after the test for "Z", on a text
\* their patterns let through: sign, two digits, an optional colon, two digits
parse_tz(string) ==
    LET z == IF string[4] = ":" THEN SubSeq(string, 1, 3) \o SubSeq(string, 5, Len(string))
             ELSE string
        hours == IntOf(Slice(z, 1, 3))
        minutes == IntOf(Slice(z, 3, 5))
        gmtoff == (hours * 60 * 60) + (minutes * 60)
    IN  \* datetime.timezone takes an offset strictly between -24 and 24 hours
        IF gmtoff >= 24 * 60 * 60 THEN Raise("ValueError")
        ELSE Return(V("timezone", IF z[1] = "-" THEN 0 - gmtoff ELSE gmtoff))

\* Python floats are IEEE 754 binary64 numbers: a positive one is held here as
\* m * 2^(-e), m a sequence of at most 54 bits, the most significant first
MantissaBits == 53

\* integers beyond 2^31 as <<high, low>> = high * Limb + low
Limb == 100000

\* r + r, r >= d and r - d on such integers
limb_double(r) ==
    LET low == 2 * r[2] IN <<2 * r[1] + low \div Limb, low % Limb>>

limb_geq(r, d) == r[1] > d[1] \/ (r[1] = d[1] /\ r[2] >= d[2])

limb_sub(r, d) ==
    IF r[2] >= d[2] THEN <<r[1] - d[1], r[2] - d[2]>>
    ELSE <<r[1] - d[1] - 1, r[2] + Limb - d[2]>>

\* bits + 1
bits_increment(bits) ==
    LET zeros == {k \in 1..Len(bits) : bits[k] = 0}
        j == CHOOSE k \in zeros : \A i \in zeros : i <= k
    IN  IF zeros = {} THEN <<1>> \o [k \in 1..Len(bits) |-> 0]
        ELSE [k \in 1..Len(bits) |-> IF k < j THEN bits[k] ELSE IF k = j THEN 1 ELSE 0]

\* round-half-to-even of the bits to MantissaBits of them; sticky tells that
\* the number goes on after the bits with something other than zeros
round_half_even(bits, sticky) ==
    IF Len(bits) <= MantissaBits THEN [m |-> bits, dropped |-> 0]
    ELSE LET mant == SubSeq(bits, 1, MantissaBits)
             guard == bits[MantissaBits + 1]
             more == sticky \/ \E k \in (MantissaBits + 2)..Len(bits) : bits[k] = 1
         IN  [m |-> IF guard = 1 /\ (more \/ mant[MantissaBits] = 1)
                    THEN bits_increment(mant) ELSE mant,
              dropped |-> Len(bits) - MantissaBits]

RECURSIVE true_divide_bits(_, _, _, _)
\* the binary digits of r / d, 0 < r < d, from the first 1 on, MantissaBits
\* and one more of them: pos counts the digits after the point taken so far
true_divide_bits(r, d, sig, pos) ==
    IF pos > 0 /\ Len(sig) = MantissaBits + 1
    THEN [bits |-> sig, pos |-> pos, sticky |-> r # <<0, 0>>]
    ELSE LET r2 == limb_double(r)
             bit == IF limb_geq(r2, d) THEN 1 ELSE 0
             rest == IF bit = 1 THEN limb_sub(r2, d) ELSE r2
         IN  true_divide_bits(rest, d, IF sig = <<>> /\ bit = 0 THEN sig ELSE Append(sig, bit),
                              pos + 1)

\* float / float of two integers 0 < r < d, rounded as int.__truediv__ does
float_truediv(r, d) ==
    Let(true_divide_bits(r, d, <<>>, 0), LAMBDA q :
        LET x == round_half_even(q.bits, q.sticky) IN [m |-> x.m, e |-> q.pos - x.dropped])

RECURSIVE int_bits(_)
\* the binary digits of n >= 0, none for 0
int_bits(n) == IF n = 0 THEN <<>> ELSE Append(int_bits(n \div 2), n % 2)

RECURSIVE bits_times(_, _, _, _)
\* the binary digits of bits[1..k] * c + carry
bits_times(bits, k, c, carry) ==
    IF k = 0 THEN int_bits(carry)
    ELSE LET t == bits[k] * c + carry
         IN  IF t < 2 THEN Append(bits_times(bits, k - 1, c, 0), t)
             ELSE Append(bits_times(bits, k - 1, c, t \div 2), t % 2)

\* float * int for a small int c, rounded
float_mul(x, c) ==
    Let(round_half_even(bits_times(x.m, Len(x.m), c, 0), FALSE), LAMBDA y :
        [m |-> y.m, e |-> x.e - y.dropped])

RECURSIVE bits_int(_)
\* the integer of binary digits
bits_int(bits) ==
    IF bits = <<>> THEN 0 ELSE 2 * bits_int(SubSeq(bits, 1, Len(bits) - 1)) + bits[Len(bits)]

\* int(float): the digits before the point
float_int(x) ==
    IF x.e >= Len(x.m) THEN 0 ELSE bits_int(SubSeq(x.m, 1, Len(x.m) - x.e))

\* int(microsec) of microsec = decimal / (10 ** size) * 10 ** 6 in floats, for
\* a text of at most 14 digits
microsecond_of(string) ==
    LET size == Len(string)
        pow10 == [n \in 0..9 |-> CASE n = 0 -> 1 [] n = 1 -> 10 [] n = 2 -> 100
                                   [] n = 3 -> 1000 [] n = 4 -> 10000 [] n = 5 -> 100000
                                   [] n = 6 -> 1000000 [] n = 7 -> 10000000
                                   [] n = 8 -> 100000000 [] n = 9 -> 1000000000]
        decimal == IF size <= 5 THEN <<0, IntOf(string)>>
                   ELSE <<IntOf(SubSeq(string, 1, size - 5)),
                          IntOf(SubSeq(string, size - 4, size))>>
        divisor == IF size < 5 THEN <<0, pow10[size]>> ELSE <<pow10[size - 5], 0>>
    IN  IF decimal = <<0, 0>> THEN 0
        ELSE float_int(float_mul(float_truediv(decimal, divisor), pow10[6]))

\* str.strip(chars)
str_strip(text, chars) ==
    LET keep == {k \in 1..Len(text) : text[k] \notin SeqToSet(chars)}
        lo == CHOOSE k \in keep : \A j \in keep : k <= j
        hi == CHOOSE k \in keep : \A j \in keep : j <= k
    IN  IF keep = {} THEN <<>> ELSE SubSeq(text, lo, hi)

\* mo.group(name) is None
GroupIsNone(mo, name) == mo.caps[name] = NoSpan

\* Date.parse_datestr; int(None) raises TypeError
Date_parse_datestr(mo, s) ==
    IF GroupIsNone(mo, "year") \/ GroupIsNone(mo, "month") \/ GroupIsNone(mo, "day")
    THEN Raise("TypeError")
    ELSE datetime_date(IntOf(GroupText(s, mo, "year")), IntOf(GroupText(s, mo, "month")),
                       IntOf(GroupText(s, mo, "day")))

\* Time.parse_timestr
Time_parse_timestr(mo, s) ==
    LET tz == IF GroupIsNone(mo, "tz") THEN Return(NoneValue)
              ELSE IF GroupText(s, mo, "tz") = <<"Z">> THEN Return(V("timezone", 0))
              ELSE parse_tz(GroupText(s, mo, "tz"))
    IN  IF GroupIsNone(mo, "hour") \/ GroupIsNone(mo, "minute") \/ GroupIsNone(mo, "second")
        THEN Raise("TypeError")
        ELSE IF tz.exc # "" THEN tz
        ELSE datetime_time(IntOf(GroupText(s, mo, "hour")), IntOf(GroupText(s, mo, "minute")),
                           IntOf(GroupText(s, mo, "second")),
                           IF GroupIsNone(mo, "dsecond") THEN 0
                           ELSE microsecond_of(GroupText(s, mo, "dsecond")),
                           tz.val)

\* pick_value of each Item class on the match object mo of the line s
Item_pick_value(item, mo, s) ==
    LET none == GroupIsNone(mo, item.match_name)
        string == GroupText(s, mo, item.match_name)
        century == now_year \div 100
    IN  CASE item.cls \in {"Statement", "String", "Hostname"} ->
                IF none THEN Return(NoneValue) ELSE Return(V("str", string))
          [] item.cls = "UserItem" ->
                IF item.strip = NoneText
                THEN (IF none THEN Return(NoneValue) ELSE Return(V("str", string)))
                ELSE (IF none THEN Raise("AttributeError")
                      ELSE Return(V("str", str_strip(string, item.strip))))
          [] item.cls = "Digit" ->
                IF none THEN Raise("TypeError") ELSE Return(V("int", IntOf(string)))
          [] item.cls = "YearWithoutCentury" ->
                IF none THEN Raise("TypeError")
                ELSE Return(V("int", century * 100 + IntOf(string)))
          [] item.cls = "MonthAbbreviation" ->
                \* month_name.index(None) raises ValueError
                IF none THEN Raise("ValueError")
                ELSE Return(V("int", CHOOSE k \in 1..12 : month_name[k] = string))
          [] item.cls = "Date" -> Date_parse_datestr(mo, s)
          [] item.cls = "Time" -> Time_parse_timestr(mo, s)
          [] item.cls = "DatetimeISOFormat" ->
                LET date == Date_parse_datestr(mo, s)
                    time == Time_parse_timestr(mo, s)
                IN  IF date.exc # "" THEN date
                    ELSE IF time.exc # "" THEN time
                    ELSE Return(V("datetime", [date |-> date.val.v, time |-> time.val.v]))
          [] item.cls = "DemicalSecond" ->
                IF none THEN Raise("TypeError")
                ELSE Return(V("int", microsecond_of(string)))
          [] item.cls = "TimeZone" ->
                \* None.lower() raises AttributeError, "z"[3] raises IndexError
                IF GroupIsNone(mo, "tz") THEN Raise("AttributeError")
                ELSE IF GroupText(s, mo, "tz") = <<"Z">> THEN Raise("IndexError")
                ELSE parse_tz(GroupText(s, mo, "tz"))
          [] item.cls = "UnixTime" ->
                IF none THEN Raise("TypeError")
                ELSE Return(V("datetime.fromtimestamp", IntOf(string)))
          [] item.cls = "DateConcat" ->
                IF none THEN Raise("TypeError")
                ELSE IF item.no_century
                THEN datetime_date(century * 100 + IntOf(Slice(string, 0, 2)),
                                   IntOf(Slice(string, 2, 4)), IntOf(Slice(string, 4, 6)))
                ELSE datetime_date(IntOf(Slice(string, 0, 4)), IntOf(Slice(string, 4, 6)),
                                   IntOf(Slice(string, 6, 8)))
          [] item.cls = "TimeConcat" ->
                IF none THEN Raise("TypeError")
                ELSE datetime_time(IntOf(Slice(string, 0, 2)), IntOf(Slice(string, 2, 4)),
                                   IntOf(Slice(string, 4, 6)), 0, NoneValue)

\* Item.pick: val is NoneValue where pick returns None, else the value to
\* store under item.value_name
Item_pick(item, mo, s) ==
    Let(Item_pick_value(item, mo, s), LAMBDA r :
        IF r.exc = "TypeError"
        THEN (IF item.optional THEN Return(NoneValue) ELSE Raise("ParserDefinitionError"))
        ELSE IF r.exc # "" THEN r
        ELSE Return(V("tuple", r.val)))

\* _reformat_timestamp assembling no date: the key timestamp or the failure
HeaderParserBase_reformat_timestamp_no_assembly(ret) ==
    IF "timestamp" \in DOMAIN ret THEN Return(ret) ELSE Raise("LogParseFailure")

\* _HeaderParserBase._reformat_timestamp (astimezone is None)
HeaderParserBase_reformat_timestamp(ret) ==
    LET has(k) == k \in DOMAIN ret
        pop(d, ks) == [k \in DOMAIN d \ ks |-> d[k]]
        date_keys == {"year", "month", "day"}
        time_keys == {"hour", "minute", "second", "microsecond", "tzinfo"}
        missing == \E k \in date_keys : ~has(k) \/ ret[k].t = "None"
        dateobj ==
            IF has("date")
            THEN (IF ret["date"].t = "date" THEN Return(ret["date"]) ELSE Raise("TypeError"))
            ELSE IF \E k \in date_keys : ret[k].t # "int" THEN Raise("TypeError")
            ELSE datetime_date(ret["year"].v, ret["month"].v, ret["day"].v)
        int_or(k, default) == IF has(k) THEN ret[k].v ELSE default
        timeobj ==
            IF has("time")
            THEN (IF ret["time"].t = "time" THEN Return(ret["time"]) ELSE Raise("TypeError"))
            ELSE IF \/ \E k \in time_keys \ {"tzinfo"} : has(k) /\ ret[k].t # "int"
                    \/ has("tzinfo") /\ ret["tzinfo"].t \notin {"timezone", "None"}
            THEN Raise("TypeError")
            ELSE datetime_time(int_or("hour", 0), int_or("minute", 0), int_or("second", 0),
                               int_or("microsecond", 0),
                               IF has("tzinfo") THEN ret["tzinfo"] ELSE NoneValue)
        rest == pop(ret, (IF has("date") THEN {"date"} ELSE date_keys)
                         \cup (IF has("time") THEN {"time"} ELSE time_keys))
    IN  IF has("timestamp") THEN Return(ret)
        ELSE IF ~has("date") /\ missing THEN Raise("LogParseFailure")
        ELSE IF dateobj.exc # "" THEN dateobj
        ELSE IF timeobj.exc # "" THEN timeobj
        ELSE Return(("timestamp" :> V("datetime", [date |-> dateobj.val.v,
                                                   time |-> timeobj.val.v])) @@ rest)

RECURSIVE pick_items(_, _, _, _, _)
\* the for loop of process_line over self._items_to_pick[k..]
pick_items(items_to_pick, k, mo, s, d_items) ==
    IF k > Len(items_to_pick) THEN Return(d_items)
    ELSE Let(Item_pick(items_to_pick[k], mo, s), LAMBDA tmp :
         IF tmp.exc # "" THEN tmp
         ELSE pick_items(items_to_pick, k + 1, mo, s,
                         IF tmp.val.t = "None" THEN d_items
                         ELSE (items_to_pick[k].value_name :> tmp.val.v) @@ d_items))

\* HeaderParser.process_line(text) of a constructed parser: val is NoneValue
\* where it returns None, else V("dict", d_items)
HeaderParser_process_line(self, text) ==
    Let(re_match(self.reobj, text), LAMBDA mo :
    IF ~mo.matched THEN Return(NoneValue)
    ELSE Let(pick_items(self.items_to_pick, 1, mo, text, self.defaults), LAMBDA picked :
    IF picked.exc # "" THEN picked
    ELSE IF ~self.reformat THEN Return(V("dict", picked.val))
    ELSE Let(HeaderParserBase_reformat_timestamp(picked.val), LAMBDA d_items :
    IF d_items.exc # "" THEN d_items
    ELSE Return(V("dict", d_items.val)))))

\* process_line with d_items = self._defaults: the dict it returns is the
\* dict of the defaults
HeaderParser_defaults_after_alias(self, ret) ==
    IF ret.exc = "" /\ ret.val.t = "dict" THEN ret.val.v ELSE self.defaults

\* self._defaults after process_line(text) gave ret: d_items is a
\* copy.copy(self._defaults), so what the call stores and pops is not seen
\* in self._defaults
HeaderParser_defaults_after(self, ret) == self.defaults

-----------------------------------------------------------------------------
(* The statements and the actions the tokenizer is run on *)

MaxStmtLen == 4
MaxActions == 3

StmtAlphabet == {"a", ":", " "}

Statements == UNION {[1..k -> StmtAlphabet] : k \in 0..MaxStmtLen}

\* ^a+$
PatAllA == <<PBol, Lit("a"), PQ(1, Inf), PEol>>
\* :
PatColonPrefix == <<Lit(":")>>
\* ^(?P<l>a*):(?P<r>a*)$
PatAroundColon ==
    <<PBol, PNamed("l"), Lit("a"), PQ(0, Inf), PClose, Lit(":"),
      PNamed("r"), Lit("a"), PQ(0, Inf), PClose, PEol>>
\* ^(?P<o>a(?P<i>:)).*$
PatNested ==
    <<PBol, PNamed("o"), Lit("a"), PNamed("i"), Lit(":"), PClose, PClose,
      Cls(AnyChar), PQ(0, Inf), PEol>>
\* ^.*[^:](?P<colon>:)$   (the docstring of RemovePartial)
PatLastColon ==
    <<PBol, Cls(AnyChar), PQ(0, Inf), Cls(AnyChar \ {":"}), PNamed("colon"), Lit(":"),
      PClose, PEol>>
\* [^a-zA-Z0-9]+          (tests/test_statement.py, test_remove)
PatNotAlnum == <<Cls(AnyChar \ Alnum), PQ(1, Inf)>>
\* ^a:a
PatAColonA == <<PBol, Lit("a"), Lit(":"), Lit("a")>>

\* an action of the pipeline, under the name of its constructor call
Choice(name, act) == [name |-> name, act |-> act]

SplitChoices ==
    {Choice("Split(' ')", Split_init(<<" ">>)), Choice("Split(':')", Split_init(<<":">>))}
FixChoices ==
    {Choice("Fix('^a+$')", Fix_init(<<PatAllA>>)),
     Choice("Fix(['^a+$', ':'])", Fix_init(<<PatAllA, PatColonPrefix>>))}
FixPartialChoices ==
    {Choice("FixPartial('^(?P<l>a*):(?P<r>a*)$', ['r', 'l'])",
            FixPartial_init(<<PatAroundColon>>, <<"r", "l">>, FALSE)),
     Choice("FixPartial('^(?P<l>a*):(?P<r>a*)$', ['r', 'l'], rest_remove=True)",
            FixPartial_init(<<PatAroundColon>>, <<"r", "l">>, TRUE)),
     Choice("FixPartial('^(?P<o>a(?P<i>:)).*$', ['o', 'i'])",
            FixPartial_init(<<PatNested>>, <<"o", "i">>, FALSE))}
FixParenthesisChoices ==
    {Choice("FixParenthesis([':', ':'])", FixParenthesis_init(<<<< <<":">>, <<":">> >>>>))}
FixIPChoices ==
    {Choice("FixIP()", FixIP_init(TRUE, TRUE)),
     Choice("FixIP(address=False)", FixIP_init(FALSE, TRUE))}
RemoveChoices == {Choice("Remove('[^a-zA-Z0-9]+')", Remove_init(<<PatNotAlnum>>))}
RemovePartialChoices ==
    {Choice("RemovePartial('^.*[^:](?P<colon>:)$', ['colon'])",
            RemovePartial_init(<<PatLastColon>>, <<"colon">>))}
ConditionalSplitChoices ==
    {Choice("ConditionalSplit('^a:a', ':')", ConditionalSplit_init(<<PatAColonA>>, <<":">>))}

-----------------------------------------------------------------------------
(* StatementParser.process_line, one action of self._l_act at a step *)

InitStatement ==
    /\ self_l_act = <<>>
    /\ calls = 0
    /\ statement \in Statements
    /\ parts = <<Part(statement, FLAG_UNKNOWN)>>
    /\ nact = 0
    /\ last = "none"
    /\ spc = "actions"
    /\ l_w = <<>>
    /\ l_s = <<>>
    /\ hdef = <<>> /\ hpc = "idle" /\ line = <<>> /\ hret = Return(NoneValue)
    /\ lp = <<>> /\ rule_id = 0 /\ ppc = "idle" /\ result = Return(NoneValue)

\* the loop of process_line has actions left to apply
InLoop == spc = "actions" /\ nact < MaxActions

\* iterable_parts = act.do(iterable_parts), act a Split
DoSplit ==
    /\ InLoop
    /\ \E c \in SplitChoices :
          /\ parts' = Split_do(c.act, parts)
          /\ last' = c.name
    /\ nact' = nact + 1
    /\ UNCHANGED <<statement, spc, l_w, l_s, hdef, hpc, line, hret, lp, rule_id, ppc, result, calls, self_l_act>>

\* iterable_parts = act.do(iterable_parts), act a Fix
DoFix ==
    /\ InLoop
    /\ \E c \in FixChoices :
          /\ parts' = Fix_do(c.act, parts)
          /\ last' = c.name
    /\ nact' = nact + 1
    /\ UNCHANGED <<statement, spc, l_w, l_s, hdef, hpc, line, hret, lp, rule_id, ppc, result, calls, self_l_act>>

\* iterable_parts = act.do(iterable_parts), act a FixPartial
DoFixPartial ==
    /\ InLoop
    /\ \E c \in FixPartialChoices :
          /\ parts' = PartialActionBase_do(c.act, parts)
          /\ last' = c.name
    /\ nact' = nact + 1
    /\ UNCHANGED <<statement, spc, l_w, l_s, hdef, hpc, line, hret, lp, rule_id, ppc, result, calls, self_l_act>>

\* iterable_parts = act.do(iterable_parts), act a FixParenthesis
DoFixParenthesis ==
    /\ InLoop
    /\ \E c \in FixParenthesisChoices :
          /\ parts' = PartialActionBase_do(c.act, parts)
          /\ last' = c.name
    /\ nact' = nact + 1
    /\ UNCHANGED <<statement, spc, l_w, l_s, hdef, hpc, line, hret, lp, rule_id, ppc, result, calls, self_l_act>>

\* iterable_parts = act.do(iterable_parts), act a FixIP
DoFixIP ==
    /\ InLoop
    /\ \E c \in FixIPChoices :
          /\ parts' = FixIP_do(c.act, parts)
          /\ last' = c.name
    /\ nact' = nact + 1
    /\ UNCHANGED <<statement, spc, l_w, l_s, hdef, hpc, line, hret, lp, rule_id, ppc, result, calls, self_l_act>>

\* iterable_parts = act.do(iterable_parts), act a Remove
DoRemove ==
    /\ InLoop
    /\ \E c \in RemoveChoices :
          /\ parts' = Remove_do(c.act, parts)
          /\ last' = c.name
    /\ nact' = nact + 1
    /\ UNCHANGED <<statement, spc, l_w, l_s, hdef, hpc, line, hret, lp, rule_id, ppc, result, calls, self_l_act>>

\* iterable_parts = act.do(iterable_parts), act a RemovePartial
DoRemovePartial ==
    /\ InLoop
    /\ \E c \in RemovePartialChoices :
          /\ parts' = PartialActionBase_do(c.act, parts)
          /\ last' = c.name
    /\ nact' = nact + 1
    /\ UNCHANGED <<statement, spc, l_w, l_s, hdef, hpc, line, hret, lp, rule_id, ppc, result, calls, self_l_act>>

\* iterable_parts = act.do(iterable_parts), act a ConditionalSplit
DoConditionalSplit ==
    /\ InLoop
    /\ \E c \in ConditionalSplitChoices :
          /\ parts' = ConditionalSplit_do(c.act, parts)
          /\ last' = c.name
    /\ nact' = nact + 1
    /\ UNCHANGED <<statement, spc, l_w, l_s, hdef, hpc, line, hret, lp, rule_id, ppc, result, calls, self_l_act>>

\* return self._separate(iterable_parts)
Separate ==
    /\ spc = "actions"
    /\ LET r == StatementParser_separate(parts) IN
       IF r.asserted
       THEN /\ spc' = "returned"
            /\ l_w' = r.l_w
            /\ l_s' = r.l_s
       ELSE /\ spc' = "AssertionError"
            /\ UNCHANGED <<l_w, l_s>>
    /\ UNCHANGED <<statement, parts, nact, last, hdef, hpc, line, hret, lp, rule_id, ppc, result, calls, self_l_act>>

NextStatement ==
    \/ DoSplit
    \/ DoFix
    \/ DoFixPartial
    \/ DoFixParenthesis
    \/ DoFixIP
    \/ DoRemove
    \/ DoRemovePartial
    \/ DoConditionalSplit
    \/ Separate

SpecStatement == InitStatement /\ [][NextStatement]_vars

-----------------------------------------------------------------------------
(* StatementParser(actions), then process_line applying self._l_act in order *)

\* tests/test_statement.py: input_mes of the tests
TestStatements ==
    [ipaddr |->
        <<"t", "e", "s", "t", "s", ":", " ", "s", "r", "c", " ", ":", ":", " ", "i",
          "s", " ", "n", "o", "t", " ", "l", "i", "n", "k", "-", "l", "o", "c", "a",
          "l">>,
     remove |->
        <<"a", " ", "-", ">", " ", "b">>,
     fix_partial |->
        <<"s", "o", "u", "r", "c", "e", " ", "1", "9", "2", ".", "0", ".", "2", ".",
          "1", ".", "8", "0", " ", "i", "n", "i", "t", "i", "a", "l", "i", "z", "e",
          "d", ".">>,
     fix_parenthesis |->
        <<"c", "o", "m", "m", "e", "n", "t", " ", "a", "d", "d", "e", "d", ":", " ",
          "\"", "T", "h", "i", "s", " ", "i", "s", " ", "a", " ", "c", "o", "m", "m",
          "e", "n", "t", " ", "d", "e", "s", "c", "r", "i", "p", "t", "i", "o", "n",
          "\"", " ", "\"", "T", "h", "i", "s", " ", "i", "s", " ", "s", "e", "c", "o",
          "n", "d", " ", "d", "e", "s", "c", "\"", ".">>,
     remove_partial |->
        <<"2", "0", "0", "0", " ", "M", "a", "r", " ", "4", " ", "1", "2", ":", "3",
          "4", ":", "5", "6", ".", "7", "8", "9", ":", " ", "h", "o", "s", "t", ":",
          " ", ":", ":", " ", "a", "n", "d", " ", "1", "2", "7", ".", "0", ".", "0",
          ".", "1", " ", "d", "u", "p", "l", "i", "c", "a", "t", "e", "d", " ", "t",
          "i", "m", "e", "s", "t", "a", "m", "p", " ", "g", "i", "v", "e", "n", ".">>,
     conditional_split |->
        <<"%", "K", "E", "R", "N", "E", "L", "-", "4", "-", "E", "V", "E", "N", "T",
          "-", "7", ":", " ", "h", "o", "s", "t", " ", "h", "1", "-", "i", "2", ".",
          "e", "x", "a", "m", "p", "l", "e", ".", "o", "r", "g", " ", "s", "c", "o",
          "r", "e", "d", " ", "-", "0", ".", "0", "3", "5", " ", "v", "a", "l", "u",
          "e", " ", "(", "2", "0", ".", "0", "%", ")">>]

\* tests/test_statement.py: statement_rules of the tests
TestRules ==
    LET d(lo, hi) == <<Cls(Digits), PQ(lo, hi)>>
        \* ^(?P<ipaddr>(\d{1,3}\.){3}\d{1,3})\.(?P<port>\d{1,5})$
        ipaddr_port == <<PBol, PNamed("ipaddr"), POpen>> \o d(1, 3)
                       \o <<Lit("."), PClose, PQ(3, 3)>> \o d(1, 3)
                       \o <<PClose, Lit("."), PNamed("port")>> \o d(1, 5) \o <<PClose, PEol>>
        \* ^.*[^.](?P<dot>\.)$
        last_dot == <<PBol, Cls(AnyChar), PQ(0, Inf), Cls(AnyChar \ {"."}), PNamed("dot"),
                      Lit("."), PClose, PEol>>
        \* ^\d{2}:\d{2}:\d{2}\.\d{3}$
        time_msec == <<PBol>> \o d(2, 2) \o <<Lit(":")>> \o d(2, 2) \o <<Lit(":")>> \o d(2, 2)
                     \o <<Lit(".")>> \o d(3, 3) \o <<PEol>>
        \* ^%[A-Z]+-\d+(-[A-Z]+-\d+)?$
        facility == <<PBol, Lit("%"), Cls(Upper), PQ(1, Inf), Lit("-")>> \o d(1, Inf)
                    \o <<POpen, Lit("-"), Cls(Upper), PQ(1, Inf), Lit("-")>> \o d(1, Inf)
                    \o <<PClose, PQ(0, 1), PEol>>
        quotes == Choice("FixParenthesis(['\"', '\"'])",
                         FixParenthesis_init(<<<< <<"\"">>, <<"\"">> >>>>))
        colon == Choice("RemovePartial('^.*[^:](?P<colon>:)$', ['colon'])",
                        RemovePartial_init(<<PatLastColon>>, <<"colon">>))
    IN  [ipaddr |-> <<Choice("Split(' ')", Split_init(<<" ">>)),
                      Choice("FixIP()", FixIP_init(TRUE, TRUE)),
                      Choice("Split(':')", Split_init(<<":">>))>>,
         remove |-> <<Choice("Split(' >')", Split_init(<<" ", ">">>)),
                      Choice("Remove('[^a-zA-Z0-9]+')", Remove_init(<<PatNotAlnum>>))>>,
         fix_partial |->
             <<Choice("Split(' ')", Split_init(<<" ">>)),
               Choice("FixPartial(ipaddr.port, ['ipaddr', 'port'])",
                      FixPartial_init(<<ipaddr_port>>, <<"ipaddr", "port">>, FALSE)),
               Choice("Split('.')", Split_init(<<".">>))>>,
         fix_parenthesis |->
             <<quotes, quotes,
               Choice("Split(' .:\"')", Split_init(<<" ", ".", ":", "\"">>))>>,
         remove_partial |->
             <<Choice("Split(' ')", Split_init(<<" ">>)),
               colon,
               Choice("RemovePartial('^.*[^.](?P<dot>\\.)$', ['dot'])",
                      RemovePartial_init(<<last_dot>>, <<"dot">>)),
               Choice("Fix(time.msec)", Fix_init(<<time_msec>>)),
               Choice("FixIP()", FixIP_init(TRUE, TRUE)),
               Choice("Split(':')", Split_init(<<":">>))>>,
         conditional_split |->
             <<Choice("Split(' ()')", Split_init(<<" ", "(", ")">>)),
               colon,
               Choice("ConditionalSplit(facility, '%-')",
                      ConditionalSplit_init(<<facility>>, <<"%", "-">>))>>]

\* ^(?P<l>a+)?:(?P<r>a*)$
PatOptionalGroup ==
    <<PBol, PNamed("l"), Lit("a"), PQ(1, Inf), PClose, PQ(0, 1), Lit(":"),
      PNamed("r"), Lit("a"), PQ(0, Inf), PClose, PEol>>

\* every action of the tokenizer the model has a constructor call of
AllChoices ==
    SplitChoices \cup FixChoices \cup FixPartialChoices \cup FixParenthesisChoices
    \cup FixIPChoices \cup RemoveChoices \cup RemovePartialChoices \cup ConditionalSplitChoices
    \cup {Choice("FixPartial('^(?P<l>a+)?:(?P<r>a*)$', ['r', 'l'])",
                 FixPartial_init(<<PatOptionalGroup>>, <<"r", "l">>, FALSE)),
          Choice("RemovePartial('^(?P<l>a+)?:(?P<r>a*)$', ['r', 'l'])",
                 RemovePartial_init(<<PatOptionalGroup>>, <<"r", "l">>))}

\* the actions given to StatementParser(actions): one action, and one action
\* after a Split
Pipelines ==
    {<<c>> : c \in AllChoices} \cup {<<s, c>> : s \in SplitChoices, c \in AllChoices}

\* the statements given to process_line: the statements of the alphabet, and
\* texts that are or resemble addresses and networks
PipelineStatements ==
    Statements
    \cup {<<"1", ".", "1", ".", "1", ".", "1">>,
          <<"1", ".", "1", ".", "1", ".", "2", "5", "6">>,
          <<"1", ".", "1", ".", "1">>,
          <<"1", ".", "1", ".", "1", ".", "0", "/", "2", "4">>,
          <<"1", ".", "1", ".", "1", ".", "1", "/", "2", "4">>,
          <<":", ":", "/", "0">>,
          <<":", ":", "1", "/", "1", "2", "8">>,
          <<"a", ":", ":", "1", " ", "1", ".", "1", ".", "1", ".", "1", ":", "a">>,
          <<"1", "/", "8">>,
          <<"1", "2", "3">>}

\* the example of the docstring of Split
SplitExample ==
    [statement |-> <<"T", "h", "i", "s", " ", "i", "s", " ", "a", " ",
                   "s", "t", "a", "t", "e", "m", "e", "n", "t", ".">>,
     actions |-> <<Choice("Split(' .')", Split_init(<<" ", ".">>))>>]

\* a test of tests/test_statement.py, the example of Split, or a statement and
\* actions of the above
InitPipeline ==
    /\ \/ \E t \in DOMAIN TestRules :
              /\ statement = TestStatements[t]
              /\ self_l_act = TestRules[t]
       \/ /\ statement = SplitExample.statement
          /\ self_l_act = SplitExample.actions
       \/ /\ statement \in PipelineStatements
          /\ self_l_act \in Pipelines
    /\ parts = <<Part(statement, FLAG_UNKNOWN)>>
    /\ nact = 0
    /\ last = "none"
    /\ spc = "actions"
    /\ l_w = <<>>
    /\ l_s = <<>>
    /\ hdef = <<>> /\ hpc = "idle" /\ line = <<>> /\ hret = Return(NoneValue)
    /\ lp = <<>> /\ rule_id = 0 /\ ppc = "idle" /\ result = Return(NoneValue)
    /\ calls = 0

\* for act in self._l_act: iterable_parts = act.do(iterable_parts)
ApplyAction ==
    /\ spc = "actions"
    /\ nact < Len(self_l_act)
    /\ parts' = Action_do(self_l_act[nact + 1].act, parts)
    /\ last' = self_l_act[nact + 1].name
    /\ nact' = nact + 1
    /\ UNCHANGED <<statement, spc, l_w, l_s, hdef, hpc, line, hret, lp, rule_id, ppc, result,
                   calls, self_l_act>>

\* return self._separate(iterable_parts), after the last action
SeparateParts ==
    /\ nact = Len(self_l_act)
    /\ Separate

NextPipeline ==
    \/ ApplyAction
    \/ SeparateParts

SpecPipeline == InitPipeline /\ [][NextPipeline]_vars

-----------------------------------------------------------------------------
(* _common.py: LogParser, and preset.py *)

\* process_header, the else of its for loop: raise LogParseFailure(msg), val
\* being the part of msg that follows "header format mismatch: "
LogParser_mismatch(text) ==
    [exc |-> "LogParseFailure",
     val |-> V("str", IF Len(text) > 50 THEN Slice(text, 0, 50) ELSE text)]

\* preset.default_header_parsers: the arguments of its two HeaderParser
default_header_parsers ==
    LET defaults == ("year" :> V("int", now_year))
        time == Item_init("Time", "", FALSE, FALSE, NoArg)
        host == Item_init("Hostname", "host", FALSE, FALSE, NoArg)
        mes == Item_init("Statement", "", FALSE, FALSE, NoArg)
    IN  <<HeaderRule(<<Item_init("Digit", "year", TRUE, FALSE, NoArg),
                       Item_init("MonthAbbreviation", "", FALSE, FALSE, NoArg),
                       Item_init("Digit", "day", FALSE, FALSE, NoArg), time, host, mes>>,
                     NoneText, <<>>, defaults, TRUE),
          HeaderRule(<<Item_init("Date", "", FALSE, FALSE, NoArg), time, host, mes>>,
                     NoneText, <<>>, defaults, TRUE)>>

\* preset.apache_errorlog_parser: the arguments of its two HeaderParser
apache_errorlog_parser ==
    LET nodefaults == [k \in {} |-> NoneValue]
        user(name, pattern, optional) ==
            Item_init("UserItem", name, optional, TRUE,
                      ItemArg(NoneText, LitStr(pattern), NoneText, FALSE))
        date == ItemGroup_init(<<Item_init("String", "weekday", FALSE, TRUE, NoArg),
                                 Item_init("MonthAbbreviation", "", FALSE, FALSE, NoArg),
                                 Item_init("Digit", "day", FALSE, FALSE, NoArg),
                                 Item_init("Time", "", FALSE, FALSE, NoArg),
                                 Item_init("Digit", "year", FALSE, FALSE, NoArg)>>,
                               <<" ">>, FALSE)
        severityname == Item_init("String", "severityname", FALSE, FALSE, NoArg)
        mes == Item_init("Statement", "", FALSE, FALSE, NoArg)
        header_rule1 ==
            <<date, severityname,
              ItemGroup_init(<<user("client", <<"c", "l", "i", "e", "n", "t">>, TRUE),
                               Item_init("Hostname", "host", TRUE, FALSE, NoArg)>>,
                             NoneText, FALSE),
              mes>>
        header_rule2 ==
            <<date,
              ItemGroup_init(<<user("core", <<"c", "o", "r", "e">>, FALSE), severityname>>,
                             <<":">>, FALSE),
              ItemGroup_init(<<user("pid", <<"p", "i", "d">>, FALSE),
                               Item_init("Digit", "processid", FALSE, FALSE, NoArg),
                               user("tid", <<"t", "i", "d">>, FALSE),
                               Item_init("Digit", "threadid", FALSE, FALSE, NoArg)>>,
                             <<":", " ">>, FALSE),
              ItemGroup_init(<<user("client", <<"c", "l", "i", "e", "n", "t">>, FALSE),
                               Item_init("Hostname", "host", FALSE, FALSE, NoArg)>>,
                             NoneText, TRUE),
              mes>>
    IN  <<HeaderRule(header_rule1, <<" ", "[", "]">>, <<>>, nodefaults, TRUE),
          HeaderRule(header_rule2, <<" ", "[", "]">>, <<>>, nodefaults, TRUE)>>

\* Apache error log lines of the two formats of the docstring of
\* apache_errorlog_parser, with a short message and short numbers
ApacheLines ==
    <<<<"[", "W", "e", "d", " ", "O", "c", "t", " ", "1", "1", " ", "1", "4", ":", "3", "2", ":", "5", "2", " ", "2", "0", "0", "0", "]", " ", "[", "e", "r", "r", "o", "r", "]", " ", "[", "c", "l", "i", "e", "n", "t", " ", "1", "2", "7", ".", "0", ".", "0", ".", "1", "]", " ", "d", "e", "n", "i", "e", "d">>,
      <<"[", "F", "r", "i", " ", "S", "e", "p", " ", "0", "9", " ", "1", "0", ":", "4", "2", ":", "2", "9", ".", "9", "0", "2", " ", "2", "0", "1", "1", "]", " ", "[", "c", "o", "r", "e", ":", "e", "r", "r", "o", "r", "]", " ", "[", "p", "i", "d", " ", "3", "5", "7", "0", "8", ":", "t", "i", "d", " ", "4", "3", "2", "8", "]", " ", "[", "c", "l", "i", "e", "n", "t", " ", "7", "2", ".", "1", "5", ".", "9", "9", ".", "1", "8", "7", "]", " ", "x">>>>

\* preset.default_statement_parser: its statement_rules
default_statement_parser ==
    LET d2 == <<Cls(Digits), PQ(2, 2)>>
        h2 == <<Cls(HexDigits), PQ(2, 2)>>
        pattern_time == <<PBol>> \o d2 \o <<Lit(":")>> \o d2 \o <<Lit(":")>> \o d2
                        \o <<POpen, Lit("."), Cls(Digits), PQ(1, Inf), PClose, PQ(0, 1), PEol>>
        pattern_macaddr == <<PBol, POpen>> \o h2 \o <<Lit(":"), PClose, PQ(5, 5)>> \o h2
                           \o <<PEol>>
    IN  <<Split_init(<<"\"", "(", ")", "[", "]", "{", "}", "|", "+", "'", ",", "=", ">",
                       "<", ";", BackQuote, "#", " ">>),
          FixIP_init(TRUE, TRUE),
          Fix_init(<<pattern_time, pattern_macaddr>>),
          Split_init(<<":">>)>>

-----------------------------------------------------------------------------
(* The rules, parsers and lines the header parser and LogParser are run on *)

MaxLineLen == 3
MaxCalls == 2

LineAlphabet == {"1", "a", " "}

\* the Item classes, DateConcat and UserItem under both settings of their argument
HeaderKinds ==
    <<"Statement", "Digit", "String", "Hostname", "UserItem", "UserItemStrip",
     "YearWithoutCentury", "MonthAbbreviation", "DatetimeISOFormat", "Date", "Time",
     "DemicalSecond", "TimeZone", "UnixTime", "DateConcat", "DateConcat6", "TimeConcat">>

\* an Item of each kind
HeaderItem(kind, optional, dummy) ==
    Item_init(CASE kind = "UserItemStrip" -> "UserItem"
                [] kind = "DateConcat6" -> "DateConcat"
                [] OTHER -> kind,
              CASE kind = "Digit" -> "a"
                [] kind = "String" -> "b"
                [] kind = "Hostname" -> "host"
                [] kind = "UserItem" -> "u"
                [] kind = "UserItemStrip" -> "v"
                [] OTHER -> "",
              optional, dummy,
              ItemArg(IF kind = "String" THEN <<"-", ".">> ELSE NoneText,
                      CASE kind = "UserItem" -> <<Cls(Lower), PQ(1, Inf)>>
                        [] kind = "UserItemStrip" -> <<Cls(Lower \cup {"_"}), PQ(1, Inf)>>
                        [] OTHER -> <<>>,
                      IF kind = "UserItemStrip" THEN <<"_">> ELSE NoneText,
                      kind = "DateConcat6"))

\* a text an Item of the kind matches
Sample(kind) ==
    CASE kind = "Statement" -> <<"x">>
      [] kind = "Digit" -> <<"1">>
      [] kind = "String" -> <<"a">>
      [] kind = "Hostname" -> <<"h", "1">>
      [] kind = "UserItem" -> <<"a", "b">>
      [] kind = "UserItemStrip" -> <<"_", "a", "_">>
      [] kind = "YearWithoutCentury" -> <<"2", "1">>
      [] kind = "MonthAbbreviation" -> <<"J", "a", "n">>
      [] kind = "DatetimeISOFormat" -> <<"2", "1", "1", "2", "-", "0", "9", "-", "0", "3", "T", "1", "1", ":", "2", "2", ":", "3", "3">>
      [] kind = "Date" -> <<"2", "1", "1", "2", "-", "0", "9", "-", "0", "3">>
      [] kind = "Time" -> <<"1", "1", ":", "2", "2", ":", "3", "3">>
      [] kind = "DemicalSecond" -> <<"6", "7", "8">>
      [] kind = "TimeZone" -> <<"+", "0", "9", "0", "0">>
      [] kind = "UnixTime" -> <<"1", "5", "5", "1", "0", "2", "4", "1", "2", "3">>
      [] kind = "DateConcat" -> <<"2", "0", "1", "9", "0", "2", "2", "5">>
      [] kind = "DateConcat6" -> <<"1", "9", "0", "2", "2", "5">>
      [] kind = "TimeConcat" -> <<"0", "1", "0", "2", "0", "3">>

\* a text the Item matches
FieldText(item) ==
    Sample(CASE item.cls = "UserItem" /\ item.strip # NoneText -> "UserItemStrip"
             [] item.cls = "DateConcat" /\ item.no_century -> "DateConcat6"
             [] OTHER -> item.cls)

\* the line made of the texts of the items at the indices in present, in the
\* order of the items, one separator character between two of them
JoinFields(items, separator, present) ==
    LET first == CHOOSE k \in present : \A j \in present : k <= j
        sep == IF separator = NoneText THEN <<" ">> ELSE <<separator[1]>>
    IN  Flatten([k \in 1..Len(items) |->
                    IF k \notin present THEN <<>>
                    ELSE IF k = first THEN FieldText(items[k])
                    ELSE sep \o FieldText(items[k])])

\* the sets of items of a rule that hold all its mandatory items
FieldSubsets(items) ==
    {present \in SUBSET (1..Len(items)) :
        \A k \in 1..Len(items) : ~items[k].optional => k \in present}

\* HeaderParser(...) calls with optional items before and after the first
\* mandatory item
OptionalFieldRules ==
    LET mes == HeaderItem("Statement", FALSE, FALSE)
        a == HeaderItem("Digit", TRUE, FALSE)
        b == HeaderItem("String", TRUE, FALSE)
        u == HeaderItem("UserItem", FALSE, FALSE)
        nodefaults == [k \in {} |-> NoneValue]
    IN  <<HeaderRule(<<a, b, u, HeaderItem("Hostname", TRUE, FALSE), mes>>, NoneText, <<>>,
                     ("a" :> V("int", 7)), FALSE),
          HeaderRule(<<a, mes, b>>, NoneText, <<>>, nodefaults, FALSE),
          HeaderRule(<<a, u, b, mes>>, <<"|">>, <<>>, nodefaults, FALSE)>>

\* HeaderParser(...) calls: for every kind of Item x, rules of x and a
\* Statement with x optional, dummy, repeated or in an ItemGroup; rules with
\* no, an optional, a dummy or a nested Statement; timestamp rules
HeaderRules ==
    LET mes == HeaderItem("Statement", FALSE, FALSE)
        x(kind, optional, dummy) == HeaderItem(kind, optional, dummy)
        nodefaults == [k \in {} |-> NoneValue]
        rule(items) == HeaderRule(items, NoneText, <<>>, nodefaults, FALSE)
        timed(items, defaults) == HeaderRule(items, NoneText, <<>>, defaults, TRUE)
        of(kind) ==
            <<rule(<<x(kind, FALSE, FALSE), mes>>),
              rule(<<x(kind, TRUE, FALSE), mes>>),
              HeaderRule(<<x(kind, TRUE, FALSE), mes>>, NoneText, <<>>,
                         (x(kind, TRUE, FALSE).value_name :> V("str", <<"D", "E", "F">>)),
                         FALSE),
              rule(<<x(kind, FALSE, FALSE), x(kind, FALSE, TRUE), mes>>),
              rule(<<x(kind, FALSE, FALSE), x(kind, FALSE, FALSE), mes>>),
              rule(<<x(kind, FALSE, TRUE), mes>>),
              rule(<<x(kind, FALSE, FALSE)>>),
              rule(<<x(kind, TRUE, FALSE)>>),
              rule(<<x(kind, FALSE, FALSE), HeaderItem("Statement", FALSE, TRUE)>>),
              rule(<<x(kind, FALSE, FALSE), HeaderItem("Statement", TRUE, FALSE)>>),
              rule(<<ItemGroup_init(<<x(kind, TRUE, FALSE)>>, NoneText, FALSE), mes>>),
              rule(<<ItemGroup_init(<<x(kind, FALSE, FALSE)>>, NoneText, TRUE), mes>>),
              rule(<<ItemGroup_init(<<x(kind, FALSE, FALSE), x(kind, FALSE, TRUE)>>,
                                    NoneText, FALSE), mes>>),
              rule(<<ItemGroup_init(<<x(kind, FALSE, FALSE), x(kind, FALSE, FALSE)>>,
                                    NoneText, FALSE), mes>>)>>
        month == HeaderItem("MonthAbbreviation", FALSE, FALSE)
        day == Item_init("Digit", "day", FALSE, FALSE, NoArg)
        digit == HeaderItem("Digit", FALSE, FALSE)
    IN  Flatten([k \in 1..Len(HeaderKinds) |-> of(HeaderKinds[k])])
        \o default_header_parsers
        \o <<timed(<<month, day, mes>>, nodefaults),
             timed(<<month, day, mes>>, ("year" :> V("int", now_year))),
             timed(<<HeaderItem("Date", TRUE, FALSE), mes>>, nodefaults),
             timed(<<HeaderItem("Date", FALSE, FALSE), HeaderItem("Time", TRUE, FALSE), mes>>,
                   nodefaults),
             timed(<<HeaderItem("DatetimeISOFormat", FALSE, FALSE), mes>>, nodefaults),
             timed(<<HeaderItem("Date", FALSE, FALSE),
                     Item_init("Digit", "hour", FALSE, FALSE, NoArg),
                     HeaderItem("TimeZone", FALSE, FALSE), mes>>, nodefaults),
             timed(<<Item_init("Digit", "year", TRUE, FALSE, NoArg), month, mes>>,
                   ("day" :> V("int", 31))),
             rule(<<ItemGroup_init(<<>>, NoneText, FALSE), mes>>),
             rule(<<ItemGroup_init(<<mes>>, NoneText, FALSE)>>),
             rule(<<ItemGroup_init(<<ItemGroup_init(<<x("Digit", TRUE, FALSE)>>, NoneText,
                                                    FALSE), digit>>, NoneText, FALSE), mes>>),
             rule(<<digit, ItemGroup_init(<<digit, x("String", FALSE, FALSE)>>, <<"|">>, TRUE),
                    mes>>),
             rule(<<mes, mes>>),
             rule(<<>>),
             HeaderRule(<<digit, mes>>, <<"|">>, <<>>, nodefaults, FALSE),
             HeaderRule(<<digit, mes>>, <<>>, <<>>, nodefaults, FALSE),
             HeaderRule(<<digit, mes>>, NoneText, <<PHolder(0), Lit(" "), PHolder(1)>>,
                        nodefaults, FALSE),
             HeaderRule(<<digit, mes>>, NoneText, <<PHolder(1), Lit(":"), Lit(" "), Lit(" "),
                                                    PHolder(0)>>, nodefaults, FALSE),
             HeaderRule(<<digit, mes>>, NoneText, <<PHolder(0), Lit(" ")>>, nodefaults, FALSE),
             HeaderRule(<<digit, mes>>, NoneText, <<PHolder(0), Lit(" "), PHolder(0), Lit(" "),
                                                    PHolder(1)>>, nodefaults, FALSE),
             HeaderRule(<<digit, mes>>, NoneText, <<PHolder(0), Lit(" "), PHolder(1), Lit(" "),
                                                    PHolder(2)>>, nodefaults, FALSE)>>
        \o OptionalFieldRules
        \o <<apache_errorlog_parser[1]>>

\* the lines given to HeaderParser.process_line
HeaderLines ==
    LET kinds == {HeaderKinds[k] : k \in 1..Len(HeaderKinds)} IN
    UNION {[1..n -> LineAlphabet] : n \in 0..MaxLineLen}
    \cup {Sample(k) : k \in kinds}
    \cup {Sample(k) \o <<" ", "x">> : k \in kinds}
    \cup {Sample(k) \o <<" ">> \o Sample(k) \o <<" ", "x">> : k \in kinds}
    \cup {<<"J", "a", "n", " ", "1", " ", "x">>,
          <<"J", "a", "n", " ", "1", " ", "1", "1", ":", "2", "2", ":", "3", "3", " ", "h",
        "1", " ", "x">>,
          <<"2", "1", "1", "2", "-", "0", "9", "-", "0", "3", " ", "1", "1", ":", "2", "2",
        ":", "3", "3", " ", "x">>,
          <<"2", "1", "1", "2", "-", "1", "3", "-", "0", "3", " ", "x">>,
          <<"2", "5", ":", "0", "0", ":", "0", "0", " ", "x">>,
          <<"Z", " ", "x">>,
          <<"1", "|", "x">>,
          <<"1", " ", "1", "|", "a", " ", "x">>,
          <<"x", ":", " ", "1">>,
          <<"0", "1", "5", "7", " ", "x">>,
          <<"0", "1", "2", "3", "4", "5", " ", "x">>,
          <<"0", "0", "0", "2", "4", "9", " ", "x">>,
          <<"5", " ", "x">>,
          <<"1", "1", ":", "2", "2", ":", "3", "3", ".", "0", "1", "5", "7", " ", "x">>,
          <<"1", "1", ":", "2", "2", ":", "3", "3", ".", "0", "1", "2", "3", "4", "5", " ", "x">>,
          <<"1", "1", ":", "2", "2", ":", "3", "3", ".", "5", " ", "x">>,
          <<"2", "1", "1", "2", "-", "0", "9", "-", "0", "3", " ", "1", "1", ":", "2", "2", ":", "3", "3", ".", "0", "1", "2", "3", "4", "5", " ", "h", "1", " ", "x">>,
          <<"2", "1", "1", "2", "-", "0", "9", "-", "0", "3", " ", "1", "1", " ", "+", "0", "9", "0", "0", " ", "x">>,
          <<"2", "1", "1", "2", "-", "0", "9", "-", "0", "3", " ", "1", "1", ":", "2", "2", ":", "3", "3", "+", "0", "9", ":", "0", "0", " ", "x">>,
          <<"-", "0", "9", ":", "3", "0", " ", "x">>,
          <<"+", "2", "4", ":", "0", "0", " ", "x">>,
          <<"-", "0", "9", "3", "0", " ", "x">>,
          <<"1", "1", ":", "2", "2", ":", "3", "3", "Z", " ", "x">>,
          <<"1", "1", ":", "2", "2", ":", "3", "3", "-", "0", "9", ":", "3", "0", " ", "x">>,
          <<"1", "1", ":", "2", "2", ":", "3", "3", "+", "2", "4", ":", "0", "0", " ", "x">>,
          <<"1", " ", "<", "0", ">", " ", "x">>,
          <<"1", " ", "x", " ", "<", "2", ">">>,
          <<"F", "e", "b", " ", "3", "1", " ", "x">>,
          <<"1", " ", "F", "e", "b", " ", "x">>,
          <<"1", " ", "J", "a", "n", " ", "x">>,
          <<"J", "a", "n", " ", "x">>,
          ApacheLines[1], ApacheLines[2]}
    \* the optional items of a rule present or not
    \cup UNION {{JoinFields(r.items, r.separator, present) :
                    present \in FieldSubsets(r.items)} :
                r \in {OptionalFieldRules[k] : k \in 1..Len(OptionalFieldRules)}
                      \cup {default_header_parsers[1]}}

\* the line of the worked scenario
ScenarioLine ==
    <<"J", "a", "n", " ", " ", "1", " ", "1", "2", ":", "3", "4", ":", "5", "6", " ",
    "h", "o", "s", "t", "-", "d", "e", "v", "i", "c", "e", "1", " ", "s", "y", "s", "t",
    "e", "m", "[", "1", "2", "3", "4", "5", "]", ":", " ", "h", "o", "s", "t", " ", "2",
    "0", "0", "1", ":", "0", "d", "b", "8", ":", "1", "2", "3", "4", ":", ":", "1", " ",
    "(", "i", "n", "t", "e", "r", "f", "a", "c", "e", ":", "e", "t", "h", "0", ")", " ",
    "d", "i", "s", "c", "o", "n", "n", "e", "c", "t", "e", "d">>

\* LogParser(header_parsers, statement_parser) calls
ParserConfigs ==
    LET mes == HeaderItem("Statement", FALSE, FALSE)
        digit == HeaderItem("Digit", FALSE, FALSE)
        nodefaults == [k \in {} |-> NoneValue]
        rule(items, reformat_timestamp) ==
            HeaderRule(items, NoneText, <<>>, nodefaults, reformat_timestamp)
        rules == default_header_parsers
                 \o <<rule(<<digit, mes>>, FALSE),
                      rule(<<HeaderItem("String", FALSE, FALSE), mes>>, FALSE),
                      rule(<<HeaderItem("MonthAbbreviation", FALSE, FALSE),
                             Item_init("Digit", "day", FALSE, FALSE, NoArg), mes>>, TRUE),
                      rule(<<digit, HeaderItem("Statement", FALSE, TRUE)>>, FALSE),
                      rule(<<digit, HeaderItem("Statement", TRUE, FALSE)>>, FALSE)>>
        statement_parsers ==
            <<default_statement_parser,
              <<Split_init(<<" ">>)>>,
              <<FixPartial_init(<<PatAroundColon>>, <<"r", "l">>, TRUE)>> >>
        \* the rules and the statement parser of each LogParser
        chosen == << <<<<1, 2>>, 1>>, <<<<2, 1>>, 1>>, <<<<3, 4>>, 1>>, <<<<4, 3>>, 1>>,
                     <<<<3>>, 2>>, <<<<5, 4>>, 1>>, <<<<3, 5>>, 1>>, <<<<6>>, 1>>,
                     <<<<7>>, 1>>, <<<<4>>, 3>> >>
    IN  Let(rules, LAMBDA rs : Let(statement_parsers, LAMBDA sps :
            [c \in 1..Len(chosen) |->
                [header_parsers |-> [k \in 1..Len(chosen[c][1]) |-> rs[chosen[c][1][k]]],
                 statement_parser |-> sps[chosen[c][2]]]]))

\* the lines given to LogParser.process_line
ParserLines ==
    UNION {[1..n -> LineAlphabet] : n \in 0..MaxLineLen}
    \cup {ScenarioLine, ScenarioLine \o <<"\n">>, <<"\n", "\n">>,
          <<"2", "1", "1", "2", "-", "0", "9", "-", "0", "3", " ", "1", "1", ":", "2", "2",
        ":", "3", "3", " ", "h", "1", " ", "a", ":", "1">>,
          <<"J", "a", "n", " ", "1", " ", "x">>,
          <<"J", "a", "n", " ", "1", " ", "1", "1", ":", "2", "2", ":", "3", "3", " ", "h",
        "1", " ", "x">>,
          <<"1", " ", ":">>,
          <<"a", " ", ":">>,
          <<"1">>,
          \* 50 and 51 characters no rule of a configuration matches
          <<"a", "b", "c", "d", "e", "f", "g", "h", "i", "j",
            "a", "b", "c", "d", "e", "f", "g", "h", "i", "j",
            "a", "b", "c", "d", "e", "f", "g", "h", "i", "j",
            "a", "b", "c", "d", "e", "f", "g", "h", "i", "j",
            "a", "b", "c", "d", "e", "f", "g", "h", "i", "j">>,
          <<"a", "b", "c", "d", "e", "f", "g", "h", "i", "j",
            "a", "b", "c", "d", "e", "f", "g", "h", "i", "j",
            "a", "b", "c", "d", "e", "f", "g", "h", "i", "j",
            "a", "b", "c", "d", "e", "f", "g", "h", "i", "j",
            "a", "b", "c", "d", "e", "f", "g", "h", "i", "j",
            "k">>}

-----------------------------------------------------------------------------
(* HeaderParser: the constructor, then a process_line call; process_line
   works on a copy of the defaults and leaves the parser as it was, so the
   outcome of a call does not depend on the calls before it *)

InitHeader ==
    /\ self_l_act = <<>>
    /\ calls = 0
    /\ \E i \in 1..Len(HeaderRules) : hdef = HeaderRules[i]
    /\ hpc = "defined"
    /\ line = <<>>
    /\ hret = Return(NoneValue)
    /\ lp = <<>> /\ rule_id = 0 /\ ppc = "idle" /\ result = Return(NoneValue)
    /\ statement = <<>> /\ parts = <<>> /\ nact = 0 /\ last = "none" /\ spc = "idle"
    /\ l_w = <<>> /\ l_s = <<>>

\* HeaderParser(items, separator, full_format, defaults, reformat_timestamp):
\* hpc becomes "constructed" or the class of the exception raised
NewHeaderParser ==
    /\ hpc = "defined"
    /\ hpc' = Let(HeaderParser_init(hdef).err,
                   LAMBDA err : IF err = "" THEN "constructed" ELSE err)
    /\ UNCHANGED <<hdef, line, hret, lp, rule_id, ppc, result,
                   statement, parts, nact, last, spc, l_w, l_s, calls, self_l_act>>

\* hret = self.process_line(line)
CallProcessLine ==
    /\ hpc = "constructed"
    /\ hpc' = "called"
    /\ \E text \in HeaderLines, self \in {HeaderParser_init(hdef)} :
          /\ line' = text
          /\ hret' = HeaderParser_process_line(self, text)
          /\ hdef' = [hdef EXCEPT !.defaults = HeaderParser_defaults_after(self, hret')]
    /\ UNCHANGED <<lp, rule_id, ppc, result,
                   statement, parts, nact, last, spc, l_w, l_s, calls, self_l_act>>

NextHeader ==
    \/ NewHeaderParser
    \/ CallProcessLine

SpecHeader == InitHeader /\ [][NextHeader]_vars

-----------------------------------------------------------------------------
(* LogParser.process_line, one iteration of process_header at a step *)

InitParser ==
    /\ self_l_act = <<>>
    /\ calls = 0
    /\ \E i \in 1..Len(ParserConfigs) : lp = ParserConfigs[i]
    /\ line \in ParserLines
    /\ ppc = "process_line"
    /\ rule_id = 0
    /\ hret = Return(NoneValue)
    /\ result = Return(NoneValue)
    /\ hdef = <<>> /\ hpc = "idle"
    /\ statement = <<>> /\ parts = <<>> /\ nact = 0 /\ last = "none" /\ spc = "idle"
    /\ l_w = <<>> /\ l_s = <<>>

\* line = line.rstrip("\n"); if line == "": return None
EnterProcessLine ==
    /\ ppc = "process_line"
    /\ LET keep == {k \in 1..Len(line) : line[k] # "\n"}
           stripped == IF keep = {} THEN <<>>
                       ELSE SubSeq(line, 1, CHOOSE k \in keep : \A j \in keep : j <= k)
       IN  /\ line' = stripped
           /\ ppc' = IF stripped = <<>> THEN "returned" ELSE "process_header"
    /\ calls' = calls + 1
    /\ UNCHANGED <<rule_id, hret, result, lp, hdef, hpc,
                   statement, parts, nact, last, spc, l_w, l_s, self_l_act>>

\* process_header: ret = p.process_line(line) for the rule at rule_id, then
\* the next rule where ret is None, else break
TryHeaderRule ==
    /\ ppc = "process_header"
    /\ rule_id < Len(lp.header_parsers)
    /\ \E p \in {HeaderParser_init(lp.header_parsers[rule_id + 1])} :
       \E ret \in {HeaderParser_process_line(p, line)} :
         /\ lp' = [lp EXCEPT !.header_parsers[rule_id + 1].defaults =
                                  HeaderParser_defaults_after(p, ret)]
         /\ IF ret.exc # ""
           THEN /\ ppc' = "raised"
                /\ result' = ret
                /\ UNCHANGED <<rule_id, hret>>
           ELSE IF ret.val.t = "None"
           THEN /\ rule_id' = rule_id + 1
                /\ UNCHANGED <<ppc, result, hret>>
           ELSE /\ ppc' = "process_statement"
                /\ hret' = ret
                /\ UNCHANGED <<rule_id, result>>
    /\ UNCHANGED <<line, hdef, hpc, statement, parts, nact, last, spc, l_w, l_s, calls, self_l_act>>

\* process_header: the else of the for loop
HeaderMismatch ==
    /\ ppc = "process_header"
    /\ rule_id = Len(lp.header_parsers)
    /\ ppc' = "raised"
    /\ result' = LogParser_mismatch(line)
    /\ UNCHANGED <<rule_id, hret, line, lp, hdef, hpc,
                   statement, parts, nact, last, spc, l_w, l_s, calls, self_l_act>>

\* mes = d[KEY_STATEMENT]; l_w, l_s = self.process_statement(mes); return d
ProcessStatement ==
    /\ ppc = "process_statement"
    /\ LET d == hret.val.v IN
       result' =
           IF "message" \notin DOMAIN d THEN Raise("KeyError")
           \* len(None) in _is_active_part
           ELSE IF d["message"].t # "str" THEN Raise("TypeError")
           ELSE Let(StatementParser_process_line(lp.statement_parser, d["message"].v),
                    LAMBDA r :
                        IF ~r.asserted THEN Raise("AssertionError")
                        ELSE Return(V("dict", ("words" :> V("list", r.l_w))
                                              @@ ("symbols" :> V("list", r.l_s)) @@ d)))
    /\ ppc' = IF result'.exc = "" THEN "returned" ELSE "raised"
    /\ UNCHANGED <<rule_id, hret, line, lp, hdef, hpc,
                   statement, parts, nact, last, spc, l_w, l_s, calls, self_l_act>>

\* the caller gives the parser a further line, whatever the call before it
\* returned or raised
CallAgain ==
    /\ ppc \in {"returned", "raised"}
    /\ calls < MaxCalls
    /\ line' \in ParserLines
    /\ ppc' = "process_line"
    /\ rule_id' = 0
    /\ hret' = Return(NoneValue)
    /\ result' = Return(NoneValue)
    /\ UNCHANGED <<lp, calls, hdef, hpc, statement, parts, nact, last, spc, l_w, l_s, self_l_act>>

NextParser ==
    \/ CallAgain
    \/ EnterProcessLine
    \/ TryHeaderRule
    \/ HeaderMismatch
    \/ ProcessStatement

SpecParser == InitParser /\ [][NextParser]_vars

-----------------------------------------------------------------------------
(* Properties of the tokenizer *)

PartTexts(iterable_parts) == [k \in 1..Len(iterable_parts) |-> iterable_parts[k].s]

\* symbols[0] + words[0] + symbols[1] + ... + words[N-1] + symbols[N]
Interleave(w, s) ==
    Flatten([k \in 1..(Len(w) + Len(s)) |->
                IF k % 2 = 1
                THEN (IF (k + 1) \div 2 <= Len(s) THEN s[(k + 1) \div 2] ELSE <<>>)
                ELSE (IF k \div 2 <= Len(w) THEN w[k \div 2] ELSE <<>>)])

\* C1: process_line returns words and symbols with len(symbols) = len(words) + 1
\* and the assert at the end of _separate never fails, whatever the statement
\* and the actions applied.
C1_ParallelArrays ==
    /\ spc # "AssertionError"
    /\ spc = "returned" => Len(l_s) = Len(l_w) + 1

\* C2: after each action the span texts concatenate to the statement, and the
\* returned symbols and words interleave to the statement.
C2_Lossless ==
    /\ Flatten(PartTexts(parts)) = statement
    /\ spc = "returned" => Interleave(l_w, l_s) = statement

RECURSIVE PassThrough(_, _)
\* new is old with every Fixed or Separator span kept as it is, in its place,
\* and every Unresolved span replaced by any number of spans
PassThrough(old, new) ==
    IF old = <<>> THEN new = <<>>
    ELSE IF Head(old).flag # FLAG_UNKNOWN
    THEN new # <<>> /\ Head(new) = Head(old) /\ PassThrough(Tail(old), Tail(new))
    ELSE \E j \in 0..Len(new) : PassThrough(Tail(old), SubSeq(new, j + 1, Len(new)))

\* C3: every action emits each Fixed or Separator span of its input unchanged
\* (same text, same tag, same place among its neighbours), so a span once
\* Fixed or Separator is there after every later action.
C3_ProtectedPassThrough == [][PassThrough(parts, parts')]_vars

\* a Fixed span holding a colon and a Separator span, both still there after a
\* later Split on the colon
C3_Witness ==
    /\ nact >= 2
    /\ last = "Split(':')"
    /\ \E k \in 1..Len(parts) : parts[k].flag = FLAG_FIXED /\ Contains(parts[k].s, ":")
    /\ \E k \in 1..Len(parts) : parts[k].flag = FLAG_SEPARATORS /\ Contains(parts[k].s, " ")

-----------------------------------------------------------------------------
(* Properties of LogParser *)

\* v is the str text
IsStr(v, text) == v.t = "str" /\ v.v = text

\* v and w are values of one type, and equal
SameValue(v, w) == v.t = w.t /\ v.v = w.v

\* ret of the k-th header rule of lp on the line
RuleResult(k) == HeaderParser_process_line(HeaderParser_init(lp.header_parsers[k]), line)

\* C4: process_header returns the result of the first rule, in list order,
\* whose process_line returns non-None; it raises LogParseFailure exactly when
\* every rule returns None, with at most the first 50 characters of the line
\* in the message.
C4_FirstMatchOrMismatch ==
    /\ ppc = "process_statement" =>
          /\ \A k \in 1..rule_id : RuleResult(k).exc = "" /\ RuleResult(k).val.t = "None"
          /\ RuleResult(rule_id + 1).exc = ""
          /\ hret.val.t = "dict"
          /\ hret = RuleResult(rule_id + 1)
    /\ (ppc = "raised" /\ result.exc = "LogParseFailure") <=>
          /\ ppc \in {"raised", "process_statement", "returned"}
          /\ line # <<>>
          /\ \A k \in 1..Len(lp.header_parsers) :
                RuleResult(k).exc = "" /\ RuleResult(k).val.t = "None"
    /\ (ppc = "raised" /\ result.exc = "LogParseFailure") =>
          /\ result.val.t = "str"
          /\ Len(result.val.v) <= 50
          /\ result.val.v = SubSeq(line, 1, Len(result.val.v))

\* C5: with the default header rules and the default statement parser, the
\* line of the worked scenario yields its message, its host, the seven words,
\* the eight symbols and a timestamp of month 1, day 1, 12:34:56.
C5_WorkedScenario ==
    (/\ line = ScenarioLine
     /\ ppc \in {"raised", "returned"}
     /\ lp = ParserConfigs[1]) =>
        /\ ppc = "returned"
        /\ result.exc = ""
        /\ result.val.t = "dict"
        /\ {"message", "host", "words", "symbols", "timestamp"} \subseteq DOMAIN result.val.v
        /\ IsStr(result.val.v["message"], Slice(ScenarioLine, 29, Len(ScenarioLine)))
        /\ IsStr(result.val.v["host"], <<"h", "o", "s", "t", "-", "d", "e", "v", "i", "c", "e", "1">>)
        /\ result.val.v["words"].v =
              <<<<"s", "y", "s", "t", "e", "m">>, <<"1", "2", "3", "4", "5">>,
              <<"h", "o", "s", "t">>,
              <<"2", "0", "0", "1", ":", "0", "d", "b", "8", ":", "1", "2", "3", "4", ":", ":", "1">>,
              <<"i", "n", "t", "e", "r", "f", "a", "c", "e">>, <<"e", "t", "h", "0">>,
              <<"d", "i", "s", "c", "o", "n", "n", "e", "c", "t", "e", "d">>>>
        /\ result.val.v["symbols"].v =
              <<<<>>, <<"[">>, <<"]", ":", " ">>, <<" ">>, <<" ", "(">>, <<":">>,
              <<")", " ">>, <<>>>>
        /\ result.val.v["timestamp"].t = "datetime"
        /\ result.val.v["timestamp"].v.date.month = 1
        /\ result.val.v["timestamp"].v.date.day = 1
        /\ result.val.v["timestamp"].v.time.hour = 12
        /\ result.val.v["timestamp"].v.time.minute = 34
        /\ result.val.v["timestamp"].v.time.second = 56

\* the worked scenario has returned its words and symbols
C5_Witness ==
    /\ line = ScenarioLine
    /\ ppc = "returned"
    /\ lp = ParserConfigs[1]
    /\ result.exc = ""
    /\ Len(result.val.v["words"].v) = 7
    /\ Len(result.val.v["symbols"].v) = 8

\* the line matches the rule, reformat_timestamp is set and year, month or day
\* is in neither the values picked nor the defaults
DateMissing(rule, text) ==
    \E p \in {HeaderParser_init(rule)} :
        /\ p.err = ""
        /\ p.reformat
        /\ \E mo \in {re_match(p.reobj, text)} :
              /\ mo.matched
              /\ \E picked \in {pick_items(p.items_to_pick, 1, mo, text, p.defaults)} :
                    /\ picked.exc = ""
                    /\ {"timestamp", "date"} \cap DOMAIN picked.val = {}
                    /\ \E k \in {"year", "month", "day"} :
                          k \notin DOMAIN picked.val \/ picked.val[k].t = "None"

\* C6: the failure raised for a line that matches a rule but has no full date
\* is of another kind than the failure raised where no rule matches the line,
\* and than the error raised for an invalid rule.
C6_DistinctFailureKinds ==
    (/\ ppc = "raised"
     /\ rule_id < Len(lp.header_parsers)
     /\ DateMissing(lp.header_parsers[rule_id + 1], line)) =>
        result.exc \notin {LogParser_mismatch(line).exc, "ParserDefinitionError"}

-----------------------------------------------------------------------------
(* Properties of HeaderParser *)

\* the items of the rule that carry the key "message"
StatementFields(items) == {k \in 1..Len(items) : items[k].value_name = "message"}

\* C7: a constructed HeaderParser has exactly one field carrying "message",
\* and it captures a value, so every non-None result of process_line has the
\* key "message"; a rule with no such field, with more than one, or with a
\* dummy one only, is rejected with ParserDefinitionError at construction.
C7_OneCapturingStatement ==
    /\ hpc \in {"constructed", "called"} =>
          /\ Cardinality(StatementFields(hdef.items)) = 1
          /\ \A k \in StatementFields(hdef.items) : ~hdef.items[k].dummy
    /\ (hpc = "called" /\ hret.exc = "" /\ hret.val.t = "dict") =>
          "message" \in DOMAIN hret.val.v
    /\ (/\ hpc \notin {"idle", "defined"}
        /\ \A k \in 1..Len(hdef.items) : hdef.items[k].err = ""
        /\ \/ Cardinality(StatementFields(hdef.items)) # 1
           \/ \E k \in StatementFields(hdef.items) : hdef.items[k].dummy) =>
          hpc = "ParserDefinitionError"

RECURSIVE NoMandatoryList(_)
\* the list, or the list of members of an ItemGroup in it, has no mandatory item
NoMandatoryList(items) ==
    \/ \A k \in 1..Len(items) : items[k].optional
    \/ \E k \in 1..Len(items) :
          items[k].cls = "ItemGroup" /\ NoMandatoryList(items[k].members)

\* C8: a list of fields compiled in separator mode, at the top level of a rule
\* or in an ItemGroup, that has no mandatory field is rejected at construction
\* with ParserDefinitionError and no other error.
C8_NoMandatoryRejected ==
    (/\ hpc \notin {"idle", "defined"}
     /\ hdef.full_format = <<>>
     /\ NoMandatoryList(hdef.items)) =>
        hpc = "ParserDefinitionError"

\* two non-dummy leaf items of the rule have one match name
DuplicatedMatchName(items) ==
    \E picks \in {HeaderParser_get_items_to_pick(items)} :
        \E a, b \in 1..Len(picks) : a # b /\ picks[a].match_name = picks[b].match_name

\* a field, the same field again as a dummy, and the statement
RedundantDummy(items) ==
    /\ Len(items) = 3
    /\ items[1].cls = items[2].cls
    /\ items[1].match_name = items[2].match_name
    /\ ~items[1].dummy /\ ~items[1].optional
    /\ items[2].dummy /\ ~items[2].optional
    /\ items[3].cls = "Statement" /\ ~items[3].dummy /\ ~items[3].optional

\* C9: construction raises ParserDefinitionError where two non-dummy leaf
\* fields have one match name; dummy fields are exempt, so a rule holding a
\* field type twice, the second time as a dummy, is constructed.
C9_DuplicatesRejectedDummyExempt ==
    (/\ hpc \notin {"idle", "defined"}
     /\ \A k \in 1..Len(hdef.items) : hdef.items[k].err = "") =>
        /\ DuplicatedMatchName(hdef.items) => hpc = "ParserDefinitionError"
        /\ (RedundantDummy(hdef.items) /\ ~DuplicatedMatchName(hdef.items)) =>
              hpc \in {"constructed", "called"}

\* C10: where the line matches and the capture of an optional non-dummy field
\* is absent, process_line raises nothing and writes nothing under the key of
\* the field: the key keeps its default, or is not in the result.
C10_OptionalAbsentSkipped ==
    (hpc = "called" /\ ~hdef.reformat) =>
        \A mo \in {re_match(HeaderParser_init(hdef).reobj, line)} :
            \A k \in 1..Len(hdef.items) :
                (/\ mo.matched
                 /\ hdef.items[k].cls # "ItemGroup"
                 /\ hdef.items[k].optional
                 /\ ~hdef.items[k].dummy
                 /\ \A j \in 1..Len(hdef.items) :
                       j # k => hdef.items[j].value_name # hdef.items[k].value_name
                 /\ GroupIsNone(mo, hdef.items[k].match_name)) =>
                    /\ hret.exc = ""
                    /\ hret.val.t = "dict"
                    /\ IF hdef.items[k].value_name \in DOMAIN hdef.defaults
                       THEN /\ hdef.items[k].value_name \in DOMAIN hret.val.v
                            /\ SameValue(hret.val.v[hdef.items[k].value_name],
                                         hdef.defaults[hdef.items[k].value_name])
                       ELSE hdef.items[k].value_name \notin DOMAIN hret.val.v

\* C11: where the line matches and the capture of a mandatory non-dummy field
\* is absent, process_line raises ParserDefinitionError, whatever the type of
\* the field.
C11_MandatoryAbsentRaises ==
    hpc = "called" =>
        \A hp \in {HeaderParser_init(hdef)} :
            \A mo \in {re_match(hp.reobj, line)} :
                \A k \in 1..Len(hp.items_to_pick) :
                    (/\ mo.matched
                     /\ ~hp.items_to_pick[k].optional
                     /\ GroupIsNone(mo, hp.items_to_pick[k].match_name)) =>
                        hret.exc = "ParserDefinitionError"

\* the rule is compiled in separator mode from items none of which is a group
SeparatorModeRule(rule) ==
    /\ rule.full_format \in {NoneText, <<>>}
    /\ rule.separator # <<>>
    /\ \A k \in 1..Len(rule.items) : rule.items[k].cls # "ItemGroup"

\* C12: in separator mode an optional item is optional together with its
\* separator: a line made of the mandatory items of a rule and of any of its
\* optional items, one separator between two of them, matches the rule; and
\* where the optional leading year of the first default rule is not in the
\* line, the timestamp of the result has the year of the defaults.
C12_OptionalWithSeparator ==
    (hpc = "called" /\ SeparatorModeRule(hdef)) =>
        /\ \A present \in FieldSubsets(hdef.items) :
              line = JoinFields(hdef.items, hdef.separator, present) =>
                  ~(hret.exc = "" /\ hret.val.t = "None")
        /\ (/\ hdef = default_header_parsers[1]
            /\ line = JoinFields(hdef.items, NoneText, 2..6)) =>
               /\ hret.exc = ""
               /\ hret.val.t = "dict"
               /\ "timestamp" \in DOMAIN hret.val.v
               /\ hret.val.v["timestamp"].t = "datetime"
               /\ hret.val.v["timestamp"].v.date.year = hdef.defaults["year"].v
               /\ "year" \notin DOMAIN hret.val.v

\* a line without the first two optional items of a rule and with its last
\* has been matched, and the key of the first item holds its default
C12_Witness ==
    /\ hpc = "called"
    /\ hdef = OptionalFieldRules[1]
    /\ line = JoinFields(hdef.items, NoneText, {3, 4, 5})
    /\ hret.exc = ""
    /\ hret.val.t = "dict"
    /\ hret.val.v["a"] = V("int", 7)

\* the merged map holds no aggregate timestamp, no aggregate date and not a
\* value other than None under each of year, month and day
DateLacking(merged) ==
    /\ "timestamp" \notin DOMAIN merged
    /\ "date" \notin DOMAIN merged
    /\ \E k \in {"year", "month", "day"} : k \notin DOMAIN merged \/ merged[k].t = "None"

\* the keys of the merged map _reformat_timestamp takes its date and time from
ConsumedKeys(merged) ==
    IF "timestamp" \in DOMAIN merged THEN {}
    ELSE (IF "date" \in DOMAIN merged THEN {"date"} ELSE {"year", "month", "day"})
         \cup (IF "time" \in DOMAIN merged THEN {"time"}
               ELSE {"hour", "minute", "second", "microsecond", "tzinfo"} \cap DOMAIN merged)

\* what a result of process_line holds, given the merged map it was made from
Reformatted(merged, res) ==
    /\ res.t = "dict"
    /\ "timestamp" \in DOMAIN res.v
    /\ DOMAIN res.v = (DOMAIN merged \ ConsumedKeys(merged)) \cup {"timestamp"}
    /\ \A k \in DOMAIN res.v \ {"timestamp"} : SameValue(res.v[k], merged[k])
    /\ ("timestamp" \notin DOMAIN merged /\ "date" \notin DOMAIN merged) =>
          /\ res.v["timestamp"].t = "datetime"
          /\ \A k \in {"year", "month", "day"} : res.v["timestamp"].v.date[k] = merged[k].v

-----------------------------------------------------------------------------
(* Properties of the actions of the tokenizer *)

\* the action applied by the step, where the step applies one
StepAction == self_l_act[nact + 1].act
ActionStep(cls) ==
    /\ spc = "actions"
    /\ nact' = nact + 1
    /\ self_l_act # <<>>
    /\ StepAction.cls = cls

\* the match of the first pattern of the action that matches s
FirstMatch(act, s) == re_match(act.l_regex[FirstMatching(act.l_regex, s)], s)

\* the spans of the listed groups that took part in the match, by their start
\* offset, groups of one start offset as they are listed
SortedSpans(mo, groups) ==
    LET took == {k \in 1..Len(groups) : mo.caps[groups[k]] # NoSpan}
        start(k) == mo.caps[groups[k]][1]
        rank(k) == 1 + Cardinality({j \in took : start(j) < start(k)
                                                  \/ (start(j) = start(k) /\ j < k)})
    IN  [r \in 1..Cardinality(took) |-> mo.caps[groups[CHOOSE k \in took : rank(k) = r]]]

\* no two of the spans share a character, and each comes after the one before
DisjointSpans(spans) == \A i \in 1..(Len(spans) - 1) : spans[i][2] <= spans[i + 1][1]

\* the span p cut at the groups: each group a span tagged label_match, the
\* text before, between and after the groups spans tagged label_other
CutAtGroups(p, spans, label_match, label_other) ==
    LET n == Len(spans)
        gap(a, b) == IF a < b THEN <<Part(Slice(p.s, a, b), label_other)>> ELSE <<>>
    IN  Flatten([i \in 1..n |->
                    gap(IF i = 1 THEN 0 ELSE spans[i - 1][2], spans[i][1])
                    \o <<Part(Slice(p.s, spans[i][1], spans[i][2]), label_match)>>])
        \o gap(IF n = 0 THEN 0 ELSE spans[n][2], Len(p.s))

\* what a partial action makes of the span p: p where p is not Unresolved or
\* no pattern matches it, else p cut at its groups
PartialExpected(act, p, label_match) ==
    IF p.flag # FLAG_UNKNOWN \/ FirstMatching(act.l_regex, p.s) = 0 THEN <<p>>
    ELSE CutAtGroups(p, SortedSpans(FirstMatch(act, p.s), act.groups),
                     label_match, act.rest_flag)

\* the texts of the spans tagged flag, in their order
TextsTagged(iterable_parts, flag) ==
    PartTexts(SelectSeq(iterable_parts, LAMBDA p : p.flag = flag))

\* the groups of every span a pattern matches are disjoint and in order
GroupsDisjoint(act, iterable_parts) ==
    \A k \in 1..Len(iterable_parts) :
        (iterable_parts[k].flag = FLAG_UNKNOWN
         /\ FirstMatching(act.l_regex, iterable_parts[k].s) # 0) =>
            DisjointSpans(SortedSpans(FirstMatch(act, iterable_parts[k].s), act.groups))

\* C15: FixPartial turns the listed groups of an Unresolved span its pattern
\* matches into Fixed spans, in the order of their start offsets and without
\* the groups that took no part in the match; where the groups are disjoint
\* the text around them becomes Unresolved spans (Separator spans with
\* rest_remove) and the other spans are as they were.  The test
\* [Split(" "), FixPartial(ipaddr.port), Split(".")] on
\* "source 192.0.2.1.80 initialized." gives source, 192.0.2.1, 80, initialized.
C15_FixPartialGroups ==
    [][/\ ActionStep("FixPartial") =>
            /\ TextsTagged(parts', FLAG_FIXED)
                 = Flatten([k \in 1..Len(parts) |->
                       TextsTagged(PartialExpected(StepAction, parts[k], FLAG_FIXED),
                                   FLAG_FIXED)])
            /\ GroupsDisjoint(StepAction, parts) =>
                  parts' = Flatten([k \in 1..Len(parts) |->
                                       PartialExpected(StepAction, parts[k], FLAG_FIXED)])
       /\ (/\ statement' = TestStatements.fix_partial
           /\ self_l_act' = TestRules.fix_partial
           /\ spc' # "actions") =>
              /\ spc' = "returned"
              /\ l_w' = << <<"s", "o", "u", "r", "c", "e">>,
                           <<"1", "9", "2", ".", "0", ".", "2", ".", "1">>,
                           <<"8", "0">>,
                           <<"i", "n", "i", "t", "i", "a", "l", "i", "z", "e", "d">> >>
      ]_vars

\* FixPartial listing the group r before the group l has cut "a:a" into the
\* Fixed l, the colon and the Fixed r
C15_Witness ==
    /\ spc = "actions"
    /\ nact = 1
    /\ last = "FixPartial('^(?P<l>a*):(?P<r>a*)$', ['r', 'l'])"
    /\ parts = <<Part(<<"a">>, FLAG_FIXED), Part(<<":">>, FLAG_UNKNOWN),
                 Part(<<"a">>, FLAG_FIXED)>>

\* the text is an address literal and addresses are tested, or it is a network
\* in CIDR notation and networks are tested
AddressOrNetwork(act, s) ==
    \/ act.test_addr /\ is_ip_address(s)
    \/ act.test_net /\ Contains(s, "/") /\ is_ip_network(s)

\* C16: FixIP keeps every span's text and retags Fixed exactly the Unresolved
\* spans whose whole text is an address (address test enabled) or a CIDR
\* network (network test enabled); no text that ip_address or ip_network
\* accepts lacks both "." and ":"; and the test [Split(" "), FixIP(),
\* Split(":")] on "tests: src :: is not link-local" gives the words tests,
\* src, ::, is, not, link-local.
C16_FixIPWholeSpan ==
    [][/\ ActionStep("FixIP") =>
            /\ Len(parts') = Len(parts)
            /\ \A k \in 1..Len(parts) :
                  /\ parts'[k].s = parts[k].s
                  /\ parts'[k].flag =
                        IF parts[k].flag = FLAG_UNKNOWN /\ AddressOrNetwork(StepAction, parts[k].s)
                        THEN FLAG_FIXED ELSE parts[k].flag
                  /\ (is_ip_address(parts[k].s) \/ is_ip_network(parts[k].s)) =>
                        (Contains(parts[k].s, ".") \/ Contains(parts[k].s, ":"))
       /\ (/\ statement' = TestStatements.ipaddr
           /\ self_l_act' = TestRules.ipaddr
           /\ spc' # "actions") =>
              /\ spc' = "returned"
              /\ l_w' = << <<"t", "e", "s", "t", "s">>, <<"s", "r", "c">>, <<":", ":">>,
                           <<"i", "s">>, <<"n", "o", "t">>,
                           <<"l", "i", "n", "k", "-", "l", "o", "c", "a", "l">> >>
      ]_vars

\* FixIP(address=False) has fixed the network "1.1.1.0/24"
C16_Witness ==
    /\ spc = "actions"
    /\ nact = 1
    /\ last = "FixIP(address=False)"
    /\ parts = <<Part(<<"1", ".", "1", ".", "1", ".", "0", "/", "2", "4">>, FLAG_FIXED)>>

\* the words of the test of two FixParenthesis and a Split
TwoPairsWords ==
    << <<"c", "o", "m", "m", "e", "n", "t">>, <<"a", "d", "d", "e", "d">>,
       <<"T", "h", "i", "s", " ", "i", "s", " ", "a", " ", "c", "o", "m", "m", "e", "n", "t", " ", "d", "e", "s", "c", "r", "i", "p", "t", "i", "o", "n">>,
       <<"T", "h", "i", "s", " ", "i", "s", " ", "s", "e", "c", "o", "n", "d", " ", "d", "e", "s", "c">> >>

\* C17: [FixParenthesis(['"', '"']), FixParenthesis(['"', '"']), Split(' .:"')]
\* on 'comment added: "This is a comment description" "This is second desc".'
\* gives the words comment, added, This is a comment description, This is
\* second desc: each quoted string is one word.
C17_TwoPairsFixed ==
    (/\ statement = TestStatements.fix_parenthesis
     /\ self_l_act = TestRules.fix_parenthesis
     /\ spc # "actions") =>
        /\ spc = "returned"
        /\ l_w = TwoPairsWords

\* what the second FixParenthesis fixes is the space between the two quoted
\* strings, and the second string is split at its spaces
C17_SecondPairSplit ==
    /\ statement = TestStatements.fix_parenthesis
    /\ self_l_act = TestRules.fix_parenthesis
    /\ spc = "returned"
    /\ l_w = << <<"c", "o", "m", "m", "e", "n", "t">>, <<"a", "d", "d", "e", "d">>,
             <<"T", "h", "i", "s", " ", "i", "s", " ", "a", " ", "c", "o", "m", "m", "e", "n", "t", " ", "d", "e", "s", "c", "r", "i", "p", "t", "i", "o", "n">>,
             <<" ">>, <<"T", "h", "i", "s">>, <<"i", "s">>,
             <<"s", "e", "c", "o", "n", "d">>, <<"d", "e", "s", "c">> >>

\* hdef holds the arguments of the first HeaderParser of apache_errorlog_parser
FirstApacheRule ==
    /\ hdef.separator = <<" ", "[", "]">>
    /\ Len(hdef.items) = Len(apache_errorlog_parser[1].items)

\* C18: preset.apache_errorlog_parser() is constructed: its first
\* HeaderParser(header_rule1, separator=" []") is, and process_line of it
\* returns a record for the Apache error log line of its format.
C18_ApacheErrorLog ==
    FirstApacheRule =>
        /\ hpc \in {"defined", "constructed", "called"}
        /\ (hpc = "called" /\ line = ApacheLines[1]) =>
              /\ hret.exc = ""
              /\ hret.val.t = "dict"

\* the ItemGroup of the optional items client and host has no mandatory item,
\* and the constructor of the first HeaderParser has raised IndexError
C18_ConstructorRaises ==
    /\ FirstApacheRule
    /\ hdef.items[3].err = "IndexError"
    /\ hpc = "IndexError"

\* the spans with Separator in the place of Fixed
Removed(iterable_parts) ==
    [k \in 1..Len(iterable_parts) |->
        IF iterable_parts[k].flag = FLAG_FIXED
        THEN Part(iterable_parts[k].s, FLAG_SEPARATORS) ELSE iterable_parts[k]]

\* what the action makes of the span p where Fix (FixPartial for a
\* RemovePartial) with the same patterns and groups is applied to p and the
\* spans it fixes are tagged Separator
AsFixThenRemoved(act, p) ==
    IF p.flag # FLAG_UNKNOWN THEN <<p>>
    ELSE IF act.cls = "Remove" THEN Removed(Fix_do(act, <<p>>))
    ELSE Removed(PartialActionBase_do([act EXCEPT !.cls = "FixPartial"], <<p>>))

\* the last action applied is a Remove or a RemovePartial
LastRemoves ==
    /\ nact >= 1
    /\ self_l_act # <<>>
    /\ self_l_act[nact].act.cls \in {"Remove", "RemovePartial"}

EntireTextMatches(reobj, s) ==
    \E r \in SeqToSet(M(reobj.n, s, 0, [g \in reobj.names |-> NoSpan])) : r.pos = Len(s)

\* C20: ConditionalSplit cuts an Unresolved span at its separators, as Split
\* does, if and only if the entire text of the span matches a pattern; an
\* Unresolved span of which only a proper prefix matches, and every Fixed or
\* Separator span, is emitted as it is.
C20_SplitsOnlyEntireMatch ==
    [][ActionStep("ConditionalSplit") =>
          parts' = Flatten([k \in 1..Len(parts) |->
                      IF /\ parts[k].flag = FLAG_UNKNOWN
                         /\ \E j \in 1..Len(StepAction.l_regex) :
                               EntireTextMatches(StepAction.l_regex[j], parts[k].s)
                      THEN Split_do(StepAction, <<parts[k]>>)
                      ELSE <<parts[k]>>])
      ]_vars

\* ConditionalSplit('^a:a', ':') has cut "a:a:", of which the pattern matches
\* the proper prefix "a:a" only
C20_PrefixMatchSplits ==
    /\ spc = "actions"
    /\ nact = 1
    /\ last = "ConditionalSplit('^a:a', ':')"
    /\ statement = <<"a", ":", "a", ":">>
    /\ parts = <<Part(<<"a">>, FLAG_UNKNOWN), Part(<<":">>, FLAG_SEPARATORS),
                 Part(<<"a">>, FLAG_UNKNOWN), Part(<<":">>, FLAG_SEPARATORS)>>

-----------------------------------------------------------------------------
(* Properties of the reducer and of Fix, Split and FixParenthesis *)

\* a span tagged Fixed or Unresolved
WordLike(p) == p.flag \in {FLAG_FIXED, FLAG_UNKNOWN}

\* the spans without the word-like spans of no text
WithoutEmptyWords(iterable_parts) ==
    SelectSeq(iterable_parts, LAMBDA p : ~(WordLike(p) /\ p.s = <<>>))

\* words and symbols of spans none of which is an empty word-like span: the
\* words are the word-like spans, and symbol i is the text of the Separator
\* spans between word i and word i + 1 (the ends of the sequence for the first
\* and the last symbol)
ReducedSpans(ps) ==
    LET at == {k \in 1..Len(ps) : WordLike(ps[k])}
        n == Cardinality(at)
        idx(i) == IF i = 0 THEN 0
                  ELSE IF i = n + 1 THEN Len(ps) + 1
                  ELSE CHOOSE k \in at : Cardinality({j \in at : j < k}) = i - 1
    IN  [l_w |-> [i \in 1..n |-> ps[idx(i)].s],
         l_s |-> [i \in 1..(n + 1) |->
                    Flatten(PartTexts(SubSeq(ps, idx(i - 1) + 1, idx(i) - 1)))]]

\* C21: the reducer returns the word-like spans of some text as the words and,
\* between two words and at both ends, one symbol concatenating the Separator
\* spans there (the empty text where there is none); a word-like span of no
\* text changes nothing.  " " split at the space gives no word and the one
\* symbol " ".
C21_Reducer ==
    [][(spc = "actions" /\ spc' # "actions") =>
          \A r \in {ReducedSpans(WithoutEmptyWords(parts))} :
              /\ spc' = "returned"
              /\ l_w' = r.l_w
              /\ l_s' = r.l_s
              /\ (statement = <<" ">> /\ last = "Split(' ')") =>
                    (l_w' = <<>> /\ l_s' = << <<" ">> >>)
      ]_vars

\* the assert of _separate has failed on an empty Fixed span between two
\* Separator spans
C21_EmptyWordBreaks ==
    /\ spc = "AssertionError"
    /\ \E k \in 2..(Len(parts) - 1) :
          /\ parts[k] = Part(<<>>, FLAG_FIXED)
          /\ parts[k - 1].flag = FLAG_SEPARATORS
          /\ parts[k + 1].flag = FLAG_SEPARATORS

\* C22: Fix retags an Unresolved span Fixed, whole, if and only if one of its
\* patterns matches the entire text of the span; a span of which a pattern
\* matches a proper prefix only stays Unresolved, and so does every other span.
C22_FixWholeSpanMatch ==
    [][ActionStep("Fix") =>
          parts' = [k \in 1..Len(parts) |->
                      IF /\ parts[k].flag = FLAG_UNKNOWN
                         /\ \E j \in 1..Len(StepAction.l_regex) :
                               EntireTextMatches(StepAction.l_regex[j], parts[k].s)
                      THEN Part(parts[k].s, FLAG_FIXED)
                      ELSE parts[k]]
      ]_vars

\* Fix(['^a+$', ':']) has fixed ":a", of which the pattern ':' matches the
\* proper prefix ":" only
C22_PrefixMatchFixes ==
    /\ spc = "actions"
    /\ nact = 1
    /\ last = "Fix(['^a+$', ':'])"
    /\ parts = <<Part(<<":", "a">>, FLAG_FIXED)>>

\* the separators of the Split actions of the pipelines
SplitSeparators ==
    {<<" ">>, <<":">>, <<".">>, <<" ", ".">>, <<" ", ">">>, <<" ", "(", ")">>,
     <<" ", ".", ":", "\"">>}

\* the text s cut into its maximal runs of characters of charset, tagged
\* Separator, and its maximal runs of other characters, tagged Unresolved
MaximalRuns(s, charset) ==
    LET cuts == {0, Len(s)}
                \cup {i \in 1..(Len(s) - 1) : (s[i] \in charset) # (s[i + 1] \in charset)}
        cut(r) == CHOOSE c \in cuts : Cardinality({d \in cuts : d < c}) = r
    IN  [r \in 1..(Cardinality(cuts) - 1) |->
            Part(Slice(s, cut(r - 1), cut(r)),
                 IF s[cut(r - 1) + 1] \in charset THEN FLAG_SEPARATORS ELSE FLAG_UNKNOWN)]

\* no span of no text, no two neighbours of one tag, no character of charset
\* in an Unresolved span
Alternating(runs, charset) ==
    /\ \A r \in 1..Len(runs) :
          /\ runs[r].s # <<>>
          /\ runs[r].flag = FLAG_UNKNOWN => SeqToSet(runs[r].s) \cap charset = {}
    /\ \A r \in 1..(Len(runs) - 1) : runs[r].flag # runs[r + 1].flag

\* C23: Split(charset) replaces each Unresolved span of some text by its
\* maximal runs of charset characters, tagged Separator, and of other
\* characters, tagged Unresolved, in order; no emitted span is empty, no two
\* neighbours from one span have the same tag and no Unresolved one holds a
\* charset character.  Split(" .") on "This is a statement." gives the words
\* This, is, a, statement and the symbols "", " ", " ", " ", ".".
C23_SplitMaximalRuns ==
    [][/\ ActionStep("Split") =>
            \E separators \in SplitSeparators :
                /\ StepAction = Split_init(separators)
                /\ \A runs \in {[k \in 1..Len(parts) |->
                                    IF parts[k].flag = FLAG_UNKNOWN /\ parts[k].s # <<>>
                                    THEN MaximalRuns(parts[k].s, SeqToSet(separators))
                                    ELSE <<parts[k]>>]} :
                      /\ parts' = Flatten(runs)
                      /\ \A k \in 1..Len(parts) :
                            (parts[k].flag = FLAG_UNKNOWN /\ parts[k].s # <<>>) =>
                                Alternating(runs[k], SeqToSet(separators))
       /\ (/\ statement' = SplitExample.statement
           /\ self_l_act' = SplitExample.actions
           /\ spc' # "actions") =>
              /\ spc' = "returned"
              /\ l_w' = << <<"T", "h", "i", "s">>, <<"i", "s">>, <<"a">>,
                  <<"s", "t", "a", "t", "e", "m", "e", "n", "t">> >>
              /\ l_s' = << <<>>, <<" ">>, <<" ">>, <<" ">>, <<".">> >>
      ]_vars

\* Split(" .") has returned the words and symbols of "This is a statement."
C23_Witness ==
    /\ statement = SplitExample.statement
    /\ self_l_act = SplitExample.actions
    /\ spc = "returned"
    /\ Len(parts) = 8
    /\ Len(l_w) = 4
    /\ Len(l_s) = 5

\* the one-character parentheses of the FixParenthesis actions of the pipelines
Parentheses == {":", "\""}

\* '^.*?' + left + '(?P<fix>.+?)' + right + '.*$'
NonGreedyBetween(left, right) ==
    <<PBol, Cls(AnyChar), PQLazy(0, Inf), Lit(left), PNamed("fix"), Cls(AnyChar),
      PQLazy(1, Inf), PClose, Lit(right), Cls(AnyChar), PQ(0, Inf), PEol>>

\* the span p with the text between the first left and the next right after
\* it Fixed, left, right and the text around them Unresolved; p where it is
\* not Unresolved or has no left with a right after it
FixedBetween(p, left, right) ==
    LET lefts == {i \in 1..Len(p.s) : p.s[i] = left}
        i == CHOOSE a \in lefts : \A b \in lefts : a <= b
        rights == {j \in (i + 1)..Len(p.s) : p.s[j] = right}
        j == CHOOSE a \in rights : \A b \in rights : a <= b
    IN  IF p.flag # FLAG_UNKNOWN \/ lefts = {} THEN <<p>>
        ELSE IF rights = {} THEN <<p>>
        ELSE <<Part(SubSeq(p.s, 1, i), FLAG_UNKNOWN),
               Part(SubSeq(p.s, i + 1, j - 1), FLAG_FIXED),
               Part(SubSeq(p.s, j, Len(p.s)), FLAG_UNKNOWN)>>

\* C24: FixParenthesis([left, right]) emits the spans FixPartial emits with
\* the pattern '^.*?' + left + '(?P<fix>.+?)' + right + '.*$' and the group
\* fix; the Fixed span is the text between the first left and the next right
\* after it, and left, right and the text around them stay Unresolved.
C24_FixParenthesisAsFixPartial ==
    [][ActionStep("FixParenthesis") =>
          \E c \in Parentheses :
              /\ StepAction = FixParenthesis_init(<< << <<c>>, <<c>> >> >>)
              /\ parts' = PartialActionBase_do(
                              FixPartial_init(<<NonGreedyBetween(c, c)>>, <<"fix">>, FALSE),
                              parts)
              /\ parts' = Flatten([k \in 1..Len(parts) |-> FixedBetween(parts[k], c, c)])
      ]_vars

\* FixParenthesis([':', ':']) has fixed ":a" in "::a:", where the text between
\* the first colon and the next is empty
C24_FixedHoldsRight ==
    /\ spc = "actions"
    /\ nact = 1
    /\ last = "FixParenthesis([':', ':'])"
    /\ statement = <<":", ":", "a", ":">>
    /\ parts = <<Part(<<":">>, FLAG_UNKNOWN), Part(<<":", "a">>, FLAG_FIXED),
                 Part(<<":">>, FLAG_UNKNOWN)>>

-----------------------------------------------------------------------------
(* Properties of the items of a HeaderParser *)

\* the capture names an item that is not a dummy brings: its match_name and
\* the names inside its pattern
CaptureNames(item) == {item.match_name} \cup SeqToSet(GroupNamesSeq(item.pattern))

\* C25: a dummy item of any class, an ItemGroup included, adds no capture name
\* to the compiled pattern, and no key of the dict process_line returns comes
\* from it: the names of the pattern are those of the items that are picked,
\* and the keys are their value names, the defaults and "timestamp".
C25_DummyClaimsNoName ==
    hpc \in {"constructed", "called"} =>
        \A self \in {HeaderParser_init(hdef)} :
            /\ self.reobj.names
                 \subseteq UNION {CaptureNames(self.items_to_pick[k]) :
                                     k \in 1..Len(self.items_to_pick)}
            /\ (hpc = "called" /\ hret.exc = "" /\ hret.val.t = "dict") =>
                  DOMAIN hret.val.v
                    \subseteq {self.items_to_pick[k].value_name :
                                  k \in 1..Len(self.items_to_pick)}
                              \cup DOMAIN self.defaults \cup {"timestamp"}

\* HeaderParser([Date(dummy=True), Statement()]) is constructed, and its
\* pattern has the capture names year, month and day of the dummy Date
C25_DummyDateNames ==
    /\ hpc = "constructed"
    /\ Len(hdef.items) = 2
    /\ hdef.items[1].cls = "Date"
    /\ hdef.items[1].dummy
    /\ HeaderParser_init(hdef).reobj.names = {"year", "month", "day", "message"}

\* C26: process_line returns a dict only where the compiled pattern, anchored
\* at both ends of the line, has consumed the whole line, from its first to
\* its last character; so it is for rules with a dummy item whose pattern has
\* an alternation at its top level, as MonthAbbreviation and Hostname.
C26_WholeLineConsumed ==
    (hpc = "called" /\ hret.exc = "" /\ hret.val.t = "dict") =>
        \A mo \in {re_match(HeaderParser_init(hdef).reobj, line)} :
            /\ mo.matched
            /\ mo.start = 0
            /\ mo.end = Len(line)

\* HeaderParser([MonthAbbreviation(dummy=True), Statement()]) has returned a
\* dict for "Jan x" with the message None: the match ends after "Jan"
C26_DummyMonthPrefix ==
    /\ hpc = "called"
    /\ Len(hdef.items) = 2
    /\ hdef.items[1].cls = "MonthAbbreviation"
    /\ hdef.items[1].dummy
    /\ line = <<"J", "a", "n", " ", "x">>
    /\ hret.exc = ""
    /\ hret.val.t = "dict"
    /\ hret.val.v["message"] = NoneValue
    /\ re_match(HeaderParser_init(hdef).reobj, line).end = 3

\* the replacers <i> of a full_format, in the order they are written
Replacers(full_format) ==
    SelectSeq(full_format, LAMBDA tk : tk.t = "<>")

\* a full_format with every replacer <i> exchanged for the pattern of items[i]
\* and every run of spaces for \s+
RECURSIVE EveryReplacerFilled(_, _)
EveryReplacerFilled(toks, items) ==
    IF toks = <<>> THEN <<>>
    ELSE IF toks[1] = Lit(" ")
    THEN IF Len(toks) > 1 /\ toks[2] = Lit(" ")
         THEN EveryReplacerFilled(Tail(toks), items)
         ELSE <<Cls(WhiteSpace), PQ(1, Inf)>> \o EveryReplacerFilled(Tail(toks), items)
    ELSE IF toks[1].t = "<>" /\ toks[1].lo < Len(items)
    THEN Item_get_regex(items[toks[1].lo + 1]) \o EveryReplacerFilled(Tail(toks), items)
    ELSE <<toks[1]>> \o EveryReplacerFilled(Tail(toks), items)

\* the HeaderParser under construction is given a full_format
TemplateMode ==
    /\ hdef.full_format # NoneText
    /\ hdef.full_format # <<>>
    /\ \A k \in 1..Len(hdef.items) : hdef.items[k].err = ""

\* C27: in full_format mode the constructor raises ParserDefinitionError when
\* the replacer of some item is missing; an accepted full_format has as many
\* replacers as the rule has items; and process_line returns a dict exactly
\* for the lines that match the full_format with each replacer <i> exchanged
\* for the pattern of item i and each run of spaces for \s+.
C27_TemplateMode ==
    TemplateMode =>
        /\ (/\ hpc # "defined"
            /\ \E i \in 0..(Len(hdef.items) - 1) : PHolder(i) \notin SeqToSet(hdef.full_format))
               => hpc = "ParserDefinitionError"
        /\ hpc \in {"constructed", "called"} =>
               Len(Replacers(hdef.full_format)) = Len(hdef.items)
        /\ hpc = "called" =>
               \A reobj \in {re_compile(<<PBol>> \o EveryReplacerFilled(hdef.full_format,
                                                                        hdef.items)
                                        \o <<PEol>>)} :
                   /\ reobj.ok
                   /\ (hret.exc = "" /\ hret.val.t = "dict")
                          <=> EntireTextMatches(reobj, line)

\* HeaderParser([Digit, Statement], full_format="<0> <0> <1>") is constructed,
\* with three replacers for two items, and has returned a dict for "1 <0> x"
C27_ExtraReplacerAccepted ==
    /\ TemplateMode
    /\ hpc = "called"
    /\ Len(hdef.items) = 2
    /\ Len(Replacers(hdef.full_format)) = 3
    /\ line = <<"1", " ", "<", "0", ">", " ", "x">>
    /\ hret.exc = ""
    /\ hret.val.t = "dict"

-----------------------------------------------------------------------------
(* Properties of the time zone, the timestamp and the fraction of a second *)

\* the offset in seconds a time zone text stands for: "Z" is zero, a sign,
\* two digits of hours, an optional colon and two digits of minutes otherwise
OffsetSeconds(text) ==
    IF text = <<"Z">> THEN 0
    ELSE LET hh == IntOf(SubSeq(text, 2, 3))
             mm == IntOf(SubSeq(text, Len(text) - 1, Len(text)))
             seconds == hh * 3600 + mm * 60
         IN  IF text[1] = "-" THEN 0 - seconds ELSE seconds

\* the tzinfo of the value a Time or TimeZone item has picked
PickedOffset(item, val) ==
    IF item.cls = "Time" THEN val.v.tzinfo ELSE val

\* C28: for every line a rule with a Time or a TimeZone item has matched with
\* a time zone text, the item decodes the text without raising: "Z" to the
\* offset zero and a numeric offset to sign * (HH * 3600 + MM * 60) seconds.
C28_TimezoneDecoded ==
    (hpc = "called" /\ ~hdef.reformat) =>
        \A self \in {HeaderParser_init(hdef)} :
        \A mo \in {re_match(self.reobj, line)} :
        \A k \in 1..Len(self.items_to_pick) :
            LET item == self.items_to_pick[k] IN
            (/\ mo.matched
             /\ item.cls \in {"Time", "TimeZone"}
             /\ ~GroupIsNone(mo, "tz"))
                => \A picked \in {Item_pick_value(item, mo, line)} :
                       /\ picked.exc = ""
                       /\ PickedOffset(item, picked.val)
                              = V("timezone", OffsetSeconds(GroupText(line, mo, "tz")))
                       /\ hret.exc = ""
                       /\ hret.val.v[item.value_name] = picked.val

\* HeaderParser([TimeZone(), Statement()]) has raised IndexError on "Z x"
C28_ZRaises ==
    /\ hpc = "called"
    /\ Len(hdef.items) = 2
    /\ hdef.items[1].cls = "TimeZone"
    /\ ~hdef.items[1].optional
    /\ ~hdef.items[1].dummy
    /\ line = <<"Z", " ", "x">>
    /\ hret.exc = "IndexError"

\* the keys under which the items store a date, a time or a part of one
TimeRelatedKeys ==
    {"date", "time", "year", "month", "day", "hour", "minute", "second", "microsecond",
     "tz", "tzinfo"}

\* the values the items of hp pick from the match mo of the line, without
\* the defaults
Extracted(hp, mo) ==
    pick_items(hp.items_to_pick, 1, mo, line, [k \in {} |-> NoneValue])

\* C29: with reformat_timestamp, every date, time and time zone value the
\* items of the rule have extracted is in the timestamp of the result, and
\* none is left under its own key: a time zone picked by a TimeZone item next
\* to a date and parts of a time is the tzinfo of the timestamp.
C29_ExtractedValuesMerged ==
    (hpc = "called" /\ hdef.reformat /\ hret.exc = "" /\ hret.val.t = "dict") =>
        \A hp \in {HeaderParser_init(hdef)} :
        \A mo \in {re_match(hp.reobj, line)} :
        \A extracted \in {Extracted(hp, mo)} :
            LET d == extracted.val
                ts == hret.val.v["timestamp"]
            IN  /\ extracted.exc = ""
                /\ DOMAIN d \cap TimeRelatedKeys \cap DOMAIN hret.val.v = {}
                /\ "timestamp" \notin DOMAIN d =>
                      /\ ts.t = "datetime"
                      /\ "date" \in DOMAIN d => ts.v.date = d["date"].v
                      /\ "time" \in DOMAIN d => ts.v.time = d["time"].v
                      /\ \A k \in {"year", "month", "day"} \cap DOMAIN d :
                             ts.v.date[k] = d[k].v
                      /\ \A k \in {"hour", "minute", "second", "microsecond"} \cap DOMAIN d :
                             "time" \notin DOMAIN d => ts.v.time[k] = d[k].v
                      /\ "tz" \in DOMAIN d => ts.v.time.tzinfo = d["tz"]

\* HeaderParser([Date(), Digit("hour"), TimeZone(), Statement()]) has returned
\* for "2112-09-03 11 +0900 x" a timestamp without tzinfo and the key tz
C29_TimeZoneLeftOut ==
    /\ hpc = "called"
    /\ hdef.reformat
    /\ \E k \in 1..Len(hdef.items) : hdef.items[k].cls = "TimeZone"
    /\ hret.exc = ""
    /\ hret.val.t = "dict"
    /\ "tz" \in DOMAIN hret.val.v
    /\ hret.val.v["tz"] = V("timezone", 32400)
    /\ hret.val.v["timestamp"].v.time.hour = 11
    /\ hret.val.v["timestamp"].v.time.tzinfo = NoneValue

\* floor(v * 10^6 / 10^n) for the text of n digits with the value v
FloorMicroseconds(digits) ==
    LET n == Len(digits)
        pow10 == [k \in 0..6 |-> CASE k = 0 -> 1 [] k = 1 -> 10 [] k = 2 -> 100
                                   [] k = 3 -> 1000 [] k = 4 -> 10000 [] k = 5 -> 100000
                                   [] k = 6 -> 1000000]
    IN  IF n <= 6 THEN IntOf(digits) * pow10[6 - n]
        ELSE IntOf(SubSeq(digits, 1, 6))

\* the digits of the fraction of a second the item has matched in the line
FractionDigits(item, mo) ==
    GroupText(line, mo, IF item.cls = "Time" THEN "dsecond" ELSE item.match_name)

\* the microseconds in the value the item has picked
PickedMicroseconds(item, val) ==
    IF item.cls = "Time" THEN val.v.microsecond ELSE val.v

\* the microseconds an item of the class picks from the text alone
MicrosecondsOf(cls, text) ==
    LET item == HeaderItem(cls, FALSE, FALSE)
        mo == re_match(re_compile(<<PBol>> \o Item_get_regex(item) \o <<PEol>>), text)
    IN  PickedMicroseconds(item, Item_pick_value(item, mo, text).val)

\* C30: a Time item with a decimal part and a DemicalSecond item convert the
\* n digits of value v they have matched to floor(v * 10^6 / 10^n)
\* microseconds, a value in 0..999999, and both give the same on the digits.
C30_MicrosecondsFloor ==
    hpc = "called" =>
        \A self \in {HeaderParser_init(hdef)} :
        \A mo \in {re_match(self.reobj, line)} :
        \A k \in 1..Len(self.items_to_pick) :
            LET item == self.items_to_pick[k] IN
            (/\ mo.matched
             /\ item.cls \in {"Time", "DemicalSecond"}
             /\ ~GroupIsNone(mo, IF item.cls = "Time" THEN "dsecond" ELSE item.match_name)
             /\ item.cls = "Time" => GroupIsNone(mo, "tz"))
                => \A digits \in {FractionDigits(item, mo)} :
                   \A picked \in {Item_pick_value(item, mo, line)} :
                       \/ picked.exc = "ValueError" /\ item.cls = "Time"
                          /\ IntOf(GroupText(line, mo, "hour")) > 23
                       \/ /\ picked.exc = ""
                          /\ PickedMicroseconds(item, picked.val) = FloorMicroseconds(digits)
                          /\ PickedMicroseconds(item, picked.val) \in 0..999999
                          /\ MicrosecondsOf("DemicalSecond", digits)
                                 = MicrosecondsOf("Time", <<"0", "0", ":", "0", "0", ":", "0",
                                                            "0", ".">> \o digits)

\* HeaderParser([DemicalSecond(), Statement()]) has returned 15699
\* microseconds for "0157 x", where floor(157 * 10^6 / 10^4) is 15700
C30_RoundedBelow ==
    /\ hpc = "called"
    /\ ~hdef.reformat
    /\ Len(hdef.items) = 2
    /\ hdef.items[1].cls = "DemicalSecond"
    /\ line = <<"0", "1", "5", "7", " ", "x">>
    /\ hret.exc = ""
    /\ hret.val.t = "dict"
    /\ hret.val.v["microsecond"] = V("int", 15699)

====
